---- MODULE Spec2Model ----
(***************************************************************************)
(* A model of the call plane of blacksmith (formerly aioli): the circuit   *)
(* breaker middleware and the HTTP cache middleware, with the shared state *)
(* they keep across calls, the middleware lists of a factory and of its    *)
(* clients, the route proxy with its preparation of requests, and the      *)
(* ResponseBox and CollectionIterator that carry the results.              *)
(***************************************************************************)
EXTENDS Integers, Sequences, FiniteSets, TLC

(***************************************************************************)
(* Bounds of the model.                                                    *)
(***************************************************************************)
\* at most MaxSerializerCalls serializers are registered or unregistered
MaxSerializerCalls == 4

\* a collection response has at most MaxItems items
MaxItems == 3

\* next is called at most MaxStops times on an exhausted iterator
MaxStops == 2

\* at most MaxBoxCalls accessors are called on a ResponseBox
MaxBoxCalls == 3

\* a call goes through a list of at most MaxChain middlewares
MaxChain == 3

\* at most MaxClients clients are created from the factory
MaxClients == 2

\* at most MaxAdds add_middleware calls are made
MaxAdds == 3

\* the clock runs from 0 to MaxTime
MaxTime == 4
\* the threshold given to AsyncCircuitBreaker(threshold=...) is in 1..MaxThreshold
MaxThreshold == 2
\* the ttl given to AsyncCircuitBreaker(ttl=...) is in 1..MaxTTL
MaxTTL == 2
\* at most MaxWrites calls of cache_response store a response
MaxWrites == 2
\* at most MaxReaders calls of get_from_cache are in flight at a time
MaxReaders == 1

VARIABLES
    now,            \* time.time(), in ticks
    threshold,      \* AsyncCircuitBreaker.__init__'s threshold argument
    ttl,            \* AsyncCircuitBreaker.__init__'s ttl argument
    breakers,       \* the breaker table of the factory: circuit name -> context
    pc,             \* per caller: "idle", "acquired" once get_breaker has
                    \* answered, or "in_next" while awaiting next
    arg,            \* per caller: the client_name of the call in flight
    event,          \* the last entry or exit of a call at the middleware (history)
    streak,         \* per client: completed counted failures in a row (history)
    cache,          \* the backing store of the cache: key -> (ex, val)
    expiry,         \* per key: the seconds left before the store expires it
    writes,         \* the number of cache_response calls that stored
    writer,         \* per response entry: the cache_response call that set it
                    \* last (history)
    cevent,         \* the last step of a call of the cache middleware (history)
    inflight,       \* per caller: the call of the cache middleware in flight
    kin,            \* the arguments of the cache_response call of SpecKeys
    kdone,          \* whether that call has been made
    heap,           \* the middleware lists: list object -> its elements
    clients,        \* per created client: the list object it holds
    adds,           \* the number of add_middleware calls made
    levent,         \* the last call on a factory or a client (history)
    chain,          \* one call through a middleware list: where it is, its trace
    proxy,          \* the factory, the client made from it and its last call
    box,            \* a ResponseBox and the last accessor called on it (history)
    iter,           \* a CollectionIterator and what its next calls gave (history)
    ser,            \* the registered body serializers and the calls made on them
    sreq,           \* a request model and the HTTP request it is serialized to
    prom,           \* the Prometheus metrics and the events delivered to the hook
    disc,           \* a factory with service discovery, its client and the calls made (history)
    urlc,           \* calls through the cache for resolved urls: store, producers, last call
    race            \* two interleaved cache_response calls, step by step, and a read

breakerVars == <<now, threshold, ttl, breakers, pc, arg, event, streak>>

cacheVars == <<cache, expiry, writes, writer, cevent, inflight>>

keysVars == <<kin, kdone>>

listVars == <<heap, clients, adds, levent>>

\* the variables of the parts other than the breaker and the cache
laterVars == <<listVars, chain, proxy, box, iter, ser, sreq, prom, disc, urlc, race>>

\* the variables of the serializers, of the hooks and of the later parts
extVars == <<ser, sreq, prom, disc, urlc, race>>

\* the variables of the factory, of the results and of the iterators
resultVars == <<proxy, box, iter>>

\* the variables of the parts before the serializers
baseVars == <<breakerVars, cacheVars, keysVars, listVars, chain, resultVars>>

\* the frame of each of these parts: every variable but its own
except_ser == <<baseVars, sreq, prom, disc, urlc, race>>
except_sreq == <<baseVars, ser, prom, disc, urlc, race>>
except_prom == <<baseVars, ser, sreq, disc, urlc, race>>
except_disc == <<baseVars, ser, sreq, prom, urlc, race>>
except_urlc == <<baseVars, ser, sreq, prom, disc, race>>
except_race == <<baseVars, ser, sreq, prom, disc, urlc>>

\* the variables of the breaker and of the cache
earlyVars == <<breakerVars, cacheVars, keysVars>>

vars == <<now, threshold, ttl, breakers, pc, arg, event, streak,
          cache, expiry, writes, writer, cevent, inflight,
          kin, kdone,
          heap, clients, adds, levent, chain, proxy, box, iter,
          ser, sreq, prom, disc, urlc, race>>

(***************************************************************************)
(* Circuit breaker middleware.                                             *)
(***************************************************************************)
\* the tasks that call through the middleware concurrently
Callers == {"t1", "t2"}

\* the client names of the calls (test_circuit_breaker_5xx uses these two)
ClientNames == {"dummy", "foo"}

\* the status codes an HTTPError raised by next may carry
ErrorStatuses == {400, 499, 500}

\* what awaiting next may produce: a response, or an exception
Ok == [kind |-> "ok", status_code |-> 200]

HTTPError(s) == [kind |-> "HTTPError", status_code |-> s]

HTTPTimeoutError == [kind |-> "HTTPTimeoutError", status_code |-> 0]

\* raised by the breaker instead of calling next
CircuitOpen == [kind |-> "OpenedState", status_code |-> 0]

\* next has been called and has not answered yet
Pending == [kind |-> "pending", status_code |-> 0]

\* the record of a step: what was done, by which caller, for which client,
\* and what the caller got
Event(op, t, c, out) == [op |-> op, caller |-> t, client |-> c, out |-> out]

NoEvent == Event("none", "t1", "dummy", Pending)

NextOutcomes == {Ok, HTTPTimeoutError} \cup {HTTPError(s) : s \in ErrorStatuses}

\* HTTPError.is_client_error
is_client_error(exc) == 400 <= exc.status_code /\ exc.status_code < 500

exclude_httpx_4xx_wide(exc) == 400 <= exc.status_code

\* exclude_httpx_4xx: the exclusion predicate handed to the breaker factory
exclude_httpx_4xx(exc) == is_client_error(exc)

\* exclude=[(HTTPError, exclude_httpx_4xx)]: the predicate is applied to
\* instances of HTTPError only
is_excluded(exc) == exc.kind = "HTTPError" /\ exclude_httpx_4xx(exc)

default_threshold_off == threshold + 1

\* default_threshold=threshold
default_threshold == threshold

default_ttl_short == ttl - 1

\* default_ttl=ttl
default_ttl == ttl

\* a circuit with no context in the table yet
NoContext == [state |-> "none", failure_count |-> 0, opened_at |-> 0]

ClosedState == [state |-> "closed", failure_count |-> 0, opened_at |-> 0]

HalfOpenedState == [state |-> "half-opened", failure_count |-> 0, opened_at |-> 0]

OpenedState(t) == [state |-> "opened", failure_count |-> 0, opened_at |-> t]

\* the factory's get_breaker: the context of the circuit, created closed
\* when the table has none
get_breaker(table, circuit) ==
    IF table[circuit] = NoContext THEN ClosedState ELSE table[circuit]

\* Context.handle_new_request, run by the breaker's __aenter__: an opened
\* circuit raises itself until its ttl has elapsed, and then half-opens
handle_new_request(ctx) ==
    IF ctx.state = "opened"
    THEN IF now > ctx.opened_at + default_ttl
         THEN [raised |-> FALSE, ctx |-> HalfOpenedState]
         ELSE [raised |-> TRUE, ctx |-> ctx]
    ELSE [raised |-> FALSE, ctx |-> ctx]

\* Context.handle_end_request: the body of the with block ended normally
handle_end_request(ctx) ==
    CASE ctx.state = "closed" -> ClosedState
      [] ctx.state = "half-opened" -> ClosedState
      [] OTHER -> ctx

\* Context.handle_exception: the body of the with block raised exc
handle_exception(ctx, exc) ==
    IF is_excluded(exc)
    THEN handle_end_request(ctx)
    ELSE CASE ctx.state = "closed" ->
                IF ctx.failure_count + 1 >= default_threshold
                THEN OpenedState(now)
                ELSE [ctx EXCEPT !.failure_count = @ + 1]
           [] ctx.state = "half-opened" -> OpenedState(now)
           [] OTHER -> ctx

\* the circuit name the middleware asks the factory for
breaker_key_shared(client_name) == "dummy"

breaker_key(client_name) == client_name

\* the history of counted failures in a row of a client, as the callers see
\* it: an error other than an HTTP 4xx counts, anything else ends the row
IsCounted(out) ==
    out.kind = "HTTPTimeoutError"
    \/ (out.kind = "HTTPError" /\ ~(out.status_code \in 400..499))

StreakAfter(n, out) ==
    IF IsCounted(out) THEN (IF n < MaxThreshold + 1 THEN n + 1 ELSE n) ELSE 0

\* handle, its first await: the factory's get_breaker answers with the
\* breaker of client_name, whose context it creates when the table has none
handle_get_breaker(t, client_name) ==
    /\ pc[t] = "idle"
    /\ LET key == breaker_key(client_name)
       IN breakers' = [breakers EXCEPT ![key] = get_breaker(breakers, key)]
    /\ pc' = [pc EXCEPT ![t] = "acquired"]
    /\ arg' = [arg EXCEPT ![t] = client_name]
    /\ event' = Event("get_breaker", t, client_name, Pending)
    /\ UNCHANGED <<now, threshold, ttl, streak, cacheVars, keysVars, laterVars>>

handle_enter_unguarded(t) ==
    /\ pc[t] = "acquired"
    /\ LET key == breaker_key(arg[t])
           r == handle_new_request(breakers[key])
       IN breakers' = [breakers EXCEPT ![key] = r.ctx]
    /\ pc' = [pc EXCEPT ![t] = "in_next"]
    /\ event' = Event("enter", t, arg[t], Pending)
    /\ UNCHANGED <<now, threshold, ttl, arg, streak, cacheVars, keysVars, laterVars>>

\* handle, its second await, up to the await of next: the breaker acquired
\* is entered (__aenter__) in the state it has by then; when it raises, next
\* is not called and the call ends
handle_enter(t) ==
    /\ pc[t] = "acquired"
    /\ LET key == breaker_key(arg[t])
           r == handle_new_request(breakers[key])
       IN /\ breakers' = [breakers EXCEPT ![key] = r.ctx]
          /\ IF r.raised
             THEN /\ pc' = [pc EXCEPT ![t] = "idle"]
                  /\ arg' = [arg EXCEPT ![t] = "dummy"]
                  /\ event' = Event("enter", t, arg[t], CircuitOpen)
             ELSE /\ pc' = [pc EXCEPT ![t] = "in_next"]
                  /\ arg' = arg
                  /\ event' = Event("enter", t, arg[t], Pending)
    /\ UNCHANGED <<now, threshold, ttl, streak, cacheVars, keysVars, laterVars>>

handle_exit_no_success(t, out) ==
    /\ pc[t] = "in_next"
    /\ LET key == breaker_key(arg[t])
           ctx == breakers[key]
       IN breakers' = [breakers EXCEPT ![key] =
                          IF out = Ok THEN ctx
                          ELSE handle_exception(ctx, out)]
    /\ streak' = [streak EXCEPT ![arg[t]] = StreakAfter(@, out)]
    /\ pc' = [pc EXCEPT ![t] = "idle"]
    /\ arg' = [arg EXCEPT ![t] = "dummy"]
    /\ event' = Event("exit", t, arg[t], out)
    /\ UNCHANGED <<now, threshold, ttl, cacheVars, keysVars, laterVars>>

\* handle, from the return of next: the with block is left, normally or with
\* the exception of next, which then propagates to the caller
handle_exit(t, out) ==
    /\ pc[t] = "in_next"
    /\ LET key == breaker_key(arg[t])
           ctx == breakers[key]
       IN breakers' = [breakers EXCEPT ![key] =
                          IF out = Ok THEN handle_end_request(ctx)
                          ELSE handle_exception(ctx, out)]
    /\ streak' = [streak EXCEPT ![arg[t]] = StreakAfter(@, out)]
    /\ pc' = [pc EXCEPT ![t] = "idle"]
    /\ arg' = [arg EXCEPT ![t] = "dummy"]
    /\ event' = Event("exit", t, arg[t], out)
    /\ UNCHANGED <<now, threshold, ttl, cacheVars, keysVars, laterVars>>

\* a caller starts a call for some client
GetBreaker == \E t \in Callers, c \in ClientNames : handle_get_breaker(t, c)

\* a caller enters the breaker it acquired
Enter == \E t \in Callers : handle_enter(t)

\* next returns or raises to a caller awaiting it
Exit == \E t \in Callers, out \in NextOutcomes : handle_exit(t, out)

\* time passes
Tick ==
    /\ now < MaxTime
    /\ now' = now + 1
    /\ UNCHANGED <<threshold, ttl, breakers, pc, arg, event, streak,
                   cacheVars, keysVars, laterVars>>

(***************************************************************************)
(* Properties of the circuit breaker middleware.                           *)
(***************************************************************************)
\* the callers awaiting next for client c
InNext(c) == {t \in Callers : pc[t] = "in_next" /\ arg[t] = c}

\* the breaker of c is opened and its ttl, as given to the middleware, has
\* not elapsed
IsOpen(c) ==
    breakers[c].state = "opened" /\ ~(now > breakers[c].opened_at + ttl)

\* the callers awaiting next, for any client
AwaitingNext == {t \in Callers : pc[t] = "in_next"}

\* the step taken is the acquisition of the breaker of c by a call
GetBreakerStep(c) ==
    now' = now /\ event'.op = "get_breaker" /\ event'.client = c

\* the step taken is the entry of a call for c into its breaker
EnterStep(c) == now' = now /\ event'.op = "enter" /\ event'.client = c

\* the step taken is the return of next to a call for c
ExitStep(c) == now' = now /\ event'.op = "exit" /\ event'.client = c

\* an HTTP error with a status in 400..499
Is4xx(out) == out.kind = "HTTPError" /\ out.status_code \in 400..499

\* C1: a call that enters the middleware for a client whose breaker is open,
\* its ttl not elapsed, gets the circuit-open error, and next is not invoked:
\* no caller starts awaiting next and the breaker is left as it was.
C1_OpenShortCircuits ==
    [][\A c \in ClientNames :
          (EnterStep(c) /\ IsOpen(c))
          => /\ event'.out = CircuitOpen
             /\ AwaitingNext' = AwaitingNext
             /\ pc'[event'.caller] = "idle"
             /\ breakers' = breakers]_vars

\* a call has just been short-circuited by an opened breaker
C1_Witness ==
    /\ event.op = "enter"
    /\ event.out = CircuitOpen
    /\ breakers[event.client].state = "opened"

\* C2: with threshold N, a closed breaker lets every call through to next,
\* stays closed while fewer than N counted failures came in a row, is opened
\* by the N-th of them, and the call that enters after them (ttl not elapsed)
\* gets the circuit-open error without next being invoked.
C2_ThresholdOpens ==
    [][\A c \in ClientNames :
          /\ (EnterStep(c) /\ breakers[c].state \in {"none", "closed"})
             => (event'.out = Pending /\ pc'[event'.caller] = "in_next")
          /\ (ExitStep(c) /\ breakers[c].state = "closed"
                /\ streak'[c] < threshold)
             => breakers'[c].state = "closed"
          /\ (ExitStep(c) /\ IsCounted(event'.out) /\ streak'[c] >= threshold)
             => (breakers'[c].state = "opened" /\ event'.out # CircuitOpen)
          /\ (EnterStep(c) /\ streak[c] >= threshold /\ IsOpen(c))
             => (event'.out = CircuitOpen /\ AwaitingNext' = AwaitingNext)]_vars

\* with threshold 2, the second failure in a row has just opened the breaker
C2_Witness ==
    /\ threshold = 2
    /\ event.op = "exit"
    /\ IsCounted(event.out)
    /\ streak[event.client] = 2
    /\ breakers[event.client] = [state |-> "opened", failure_count |-> 0,
                                 opened_at |-> now]

\* C3: an opened breaker leaves the opened state only by half-opening, on the
\* entry of a call after its ttl has elapsed, and that call is let through; a
\* call entering a half-opened breaker is let through; the return of next to
\* a call of a half-opened breaker closes it on success and opens it again,
\* opened at the time of the failure, on a counted failure; a closed breaker
\* lets calls through.
C3_HalfOpenProbe ==
    [][\A c \in ClientNames :
          /\ (breakers[c].state = "opened" /\ breakers'[c].state # "opened")
             => /\ breakers'[c].state = "half-opened"
                /\ now > breakers[c].opened_at + ttl
                /\ EnterStep(c)
                /\ event'.out = Pending
          /\ (EnterStep(c) /\ breakers[c].state = "half-opened")
             => (event'.out = Pending /\ pc'[event'.caller] = "in_next")
          /\ (ExitStep(c) /\ breakers[c].state = "half-opened"
                /\ event'.out = Ok)
             => breakers'[c].state = "closed"
          /\ (ExitStep(c) /\ breakers[c].state = "half-opened"
                /\ IsCounted(event'.out))
             => (breakers'[c].state = "opened"
                 /\ breakers'[c].opened_at = now)
          /\ (EnterStep(c) /\ breakers[c].state = "closed")
             => event'.out = Pending]_vars

\* a half-opened breaker with its probe awaiting next
C3_Witness ==
    \E c \in ClientNames :
        /\ breakers[c].state = "half-opened"
        /\ InNext(c) # {}
        /\ now > ttl

\* C4: an HTTP error with a status in 400..499 raised by next is not a
\* failure for the breaker (it neither opens it nor adds to its failure
\* count), and every other error raised by next is one: it adds one to the
\* failure count of a closed breaker or opens it, and opens a half-opened one.
C4_Only4xxExcluded ==
    [][\A c \in ClientNames :
          ExitStep(c) =>
            /\ Is4xx(event'.out)
               => /\ breakers'[c].state = "opened"
                     => breakers[c].state = "opened"
                  /\ breakers'[c].failure_count = 0
            /\ (event'.out # Ok /\ ~Is4xx(event'.out)
                  /\ breakers[c].state = "closed")
               => \/ breakers'[c].state = "opened"
                  \/ /\ breakers'[c].state = "closed"
                     /\ breakers'[c].failure_count
                          = breakers[c].failure_count + 1
            /\ (event'.out # Ok /\ ~Is4xx(event'.out)
                  /\ breakers[c].state = "half-opened")
               => breakers'[c].state = "opened"]_vars

\* with threshold 1 a call has just failed with a 499 and the breaker is
\* closed
C4_Witness ==
    /\ threshold = 1
    /\ event.op = "exit"
    /\ event.out = HTTPError(499)
    /\ breakers[event.client].state = "closed"

\* C5: a step of a call for one client changes neither the breaker nor the
\* failure history of any other client, and a call for a client whose own
\* breaker is not opened is let through whatever the other breakers are.
C5_PerClient ==
    [][\A c \in ClientNames :
          /\ (\E d \in ClientNames \ {c} :
                 GetBreakerStep(d) \/ EnterStep(d) \/ ExitStep(d))
             => (breakers'[c] = breakers[c] /\ streak'[c] = streak[c])
          /\ (EnterStep(c) /\ breakers[c].state # "opened")
             => event'.out = Pending]_vars

\* a call for foo has just succeeded while the breaker of dummy is opened
C5_Witness ==
    /\ breakers["dummy"].state = "opened"
    /\ event.op = "exit"
    /\ event.client = "foo"
    /\ event.out = Ok

\* C6: while the breaker of a client is open, its ttl not elapsed, no step of
\* any caller adds a caller to those awaiting next for that client, the
\* callers that enter get the circuit-open error, and the returns of next to
\* the calls still in flight leave the breaker as it is.
C6_ContendersShortCircuit ==
    [][\A c \in ClientNames :
          IsOpen(c) =>
            /\ InNext(c)' \subseteq InNext(c)
            /\ EnterStep(c) => event'.out = CircuitOpen
            /\ breakers'[c] = breakers[c]]_vars

\* one caller is short-circuited while the call of another, entered before
\* the breaker opened, is still awaiting next for the same client
C6_Witness ==
    \E c \in ClientNames :
        /\ IsOpen(c)
        /\ InNext(c) # {}
        /\ event.op = "enter"
        /\ event.client = c
        /\ event.out = CircuitOpen
        /\ event.caller \notin InNext(c)

(***************************************************************************)
(* HTTP cache middleware.                                                  *)
(***************************************************************************)
\* str.lower() on the header names of the model
lower(name) ==
    CASE name = "X-Country-Code" -> "x-country-code"
      [] name = "A" -> "a"
      [] name = "B" -> "b"
      [] OTHER -> name

\* sep.join(s) for a sequence of strings
RECURSIVE join(_, _)
join(sep, s) ==
    IF s = <<>> THEN ""
    ELSE IF Len(s) = 1 THEN s[1]
    ELSE s[1] \o sep \o join(sep, Tail(s))

\* a mapping with no key
EmptyDict == [k \in {} |-> ""]

\* the parts of a route pattern: literal text, or a placeholder {name}
Lit(text) == [kind |-> "lit", text |-> text]

Var(name) == [kind |-> "var", text |-> name]

\* HTTPRequest(method, url_pattern, path, querystring, headers)
HTTPRequest(method, url_pattern, path, querystring, headers) ==
    [method |-> method, url_pattern |-> url_pattern, path |-> path,
     querystring |-> querystring, headers |-> headers]

\* HTTPResponse(status_code, headers, json)
HTTPResponse(status_code, headers, json) ==
    [status_code |-> status_code, headers |-> headers, json |-> json]

\* the directives of a Cache-Control header
MaxAgeDirective(n) == [name |-> "max-age", value |-> n]

Public == [name |-> "public", value |-> 0]

\* what get_from_cache returns on a miss
None == HTTPResponse(0, EmptyDict, "None")

\* what the store returns for a key it does not hold
NoValue == "<None>"

\* the pattern with every {name} replaced by the request's path value,
\* followed by ? and the query string when the request has one
resolved_path(path, req) ==
    LET parts == [i \in DOMAIN path |->
                     IF path[i].kind = "var" THEN req.path[path[i].text]
                     ELSE path[i].text]
        query == [i \in DOMAIN req.querystring |->
                     req.querystring[i][1] \o "=" \o req.querystring[i][2]]
    IN join("", parts)
       \o (IF req.querystring = <<>> THEN "" ELSE "?" \o join("&", query))

\* CacheControlPolicy.sep
sep == "$"

handle_request_always(req) == TRUE

\* CacheControlPolicy.handle_request: only GET requests are handled
handle_request(req) == req.method = "GET"

get_vary_key_of_pattern(client_name, path, req) ==
    client_name \o sep
    \o join("", [i \in DOMAIN path |->
                    IF path[i].kind = "var" THEN "{" \o path[i].text \o "}"
                    ELSE path[i].text])

\* CacheControlPolicy.get_vary_key
get_vary_key(client_name, path, req) ==
    client_name \o sep \o resolved_path(path, req)

header_value_case_sensitive(req, name) ==
    IF name \in DOMAIN req.headers THEN req.headers[name] ELSE ""

\* the value of the request header called name, whatever the case of the
\* request's header names; "" when the request has no such header
header_value(req, name) ==
    LET ks == {k \in DOMAIN req.headers : lower(k) = name}
    IN IF ks = {} THEN "" ELSE req.headers[CHOOSE k \in ks : TRUE]

\* the entry name=value of a Vary header in the key of a response
vary_entry(req, name) == name \o "=" \o header_value(req, name)

\* CacheControlPolicy.get_response_cache_key
get_response_cache_key(client_name, path, req, vary) ==
    get_vary_key(client_name, path, req) \o sep
    \o join("|", [i \in DOMAIN vary |-> vary_entry(req, vary[i])])

\* get_max_age: the max-age of a public response, 0 for any other
get_max_age(resp) ==
    IF "cache-control" \notin DOMAIN resp.headers THEN 0
    ELSE LET cc == resp.headers["cache-control"]
             ages == {i \in DOMAIN cc : cc[i].name = "max-age"}
         IN IF \A i \in DOMAIN cc : cc[i] # Public THEN 0
            ELSE IF ages = {} THEN 0
            ELSE cc[CHOOSE i \in ages : TRUE].value

\* get_vary_header_split: the lowercased names of the Vary header
get_vary_header_split(resp) ==
    IF "vary" \notin DOMAIN resp.headers THEN <<>>
    ELSE [i \in DOMAIN resp.headers["vary"] |->
             lower(resp.headers["vary"][i])]

\* json.dumps of a list of strings
dumps_list(l) ==
    "[" \o join(", ", [i \in DOMAIN l |-> "\"" \o l[i] \o "\""]) \o "]"

\* the text of a header of a response
header_text(resp, h) ==
    IF h = "vary" THEN join(", ", resp.headers[h])
    ELSE join(", ", [i \in DOMAIN resp.headers[h] |->
                        IF resp.headers[h][i].name = "max-age"
                        THEN "max-age=" \o ToString(resp.headers[h][i].value)
                        ELSE resp.headers[h][i].name])

\* json.dumps of a response: its status_code, headers and json members
dumps_response(resp) ==
    LET order == <<"cache-control", "vary">>
        present == SelectSeq(order, LAMBDA h : h \in DOMAIN resp.headers)
        members == [i \in DOMAIN present |->
                       "\"" \o present[i] \o "\": \""
                       \o header_text(resp, present[i]) \o "\""]
    IN "{\"status_code\": " \o ToString(resp.status_code)
       \o ", \"headers\": {" \o join(", ", members)
       \o "}, \"json\": \"" \o resp.json \o "\"}"

\* the Vary headers of the model's responses
VaryHeaders ==
    {<<"X-Country-Code">>, <<"a", "b">>, <<"B", "a">>, <<"A">>}

\* the Cache-Control headers of the model's responses
CacheControls ==
    {<<MaxAgeDirective(1), Public>>, <<MaxAgeDirective(2), Public>>,
     <<MaxAgeDirective(0), Public>>, <<MaxAgeDirective(2)>>, <<Public>>}

Bodies == {"En Francais", "In English"}

\* every response of the model
Responses ==
    {HTTPResponse(200, EmptyDict, b) : b \in Bodies}
    \cup {HTTPResponse(200, [h \in {"cache-control"} |-> cc], b) :
             cc \in CacheControls, b \in Bodies}
    \cup {HTTPResponse(200, [h \in {"cache-control", "vary"} |->
                                IF h = "vary" THEN v ELSE cc], b) :
             cc \in CacheControls, v \in VaryHeaders, b \in Bodies}

\* the lists of header names the store can hold, and their JSON texts
VaryLists == {<<>>} \cup {get_vary_header_split(r) : r \in Responses}

ListTexts == [l \in VaryLists |-> dumps_list(l)]

\* the JSON texts of the responses the store can hold
ResponseTexts == [r \in Responses |-> dumps_response(r)]

\* json.loads of a list of strings written by dumps_list
loads_list(text) == CHOOSE l \in VaryLists : ListTexts[l] = text

\* json.loads of a response written by dumps_response, as a HTTPResponse
loads_response(text) == CHOOSE r \in Responses : ResponseTexts[r] = text

\* the fake store's get
cache_get(store, key) ==
    IF key \in DOMAIN store THEN store[key].val ELSE NoValue

\* timedelta(seconds=seconds): the days and the seconds of the day
timedelta(seconds) ==
    [days |-> seconds \div 86400, seconds |-> seconds % 86400]

\* timedelta.total_seconds()
total_seconds(td) == td.days * 86400 + td.seconds

cache_set_no_ex(store, key, val, ex) ==
    [k \in DOMAIN store \cup {key} |->
        IF k = key THEN [ex |-> 0, val |-> val] ELSE store[k]]

cache_set_keep(store, key, val, ex) ==
    [k \in DOMAIN store \cup {key} |->
        IF k \in DOMAIN store THEN store[k]
        ELSE [ex |-> ex.seconds, val |-> val]]

\* the fake store's set: the entry holds ex.seconds, the seconds of the day
\* of the timedelta, and the value
cache_set(store, key, val, ex) ==
    [k \in DOMAIN store \cup {key} |->
        IF k = key THEN [ex |-> ex.seconds, val |-> val] ELSE store[k]]

\* a store that expires its entries: the keys set with ex live for the
\* length of ex from the call
set_expiry(lives, keys, ex) ==
    [k \in DOMAIN lives \cup keys |->
        IF k \in keys THEN total_seconds(ex) ELSE lives[k]]

\* the calls of the store's set that cache_response makes, in order: the
\* Vary record, then the response
cache_response_steps(client_name, path, req, resp) ==
    LET max_age == get_max_age(resp)
        vary == get_vary_header_split(resp)
        vary_key == get_vary_key(client_name, path, req)
        response_key == get_response_cache_key(client_name, path, req, vary)
    IN IF max_age <= 0 THEN <<>>
       ELSE <<[key |-> vary_key, val |-> dumps_list(vary),
               ex |-> timedelta(max_age)],
              [key |-> response_key, val |-> dumps_response(resp),
               ex |-> timedelta(max_age)]>>

\* AsyncHTTPCacheMiddleware.cache_response run without another task in
\* between: the store after the call
cache_response(store, client_name, path, req, resp) ==
    LET steps == cache_response_steps(client_name, path, req, resp)
    IN IF steps = <<>> THEN store
       ELSE cache_set(cache_set(store, steps[1].key, steps[1].val,
                                steps[1].ex),
                      steps[2].key, steps[2].val, steps[2].ex)

\* AsyncHTTPCacheMiddleware.get_from_cache run without another task in
\* between
get_from_cache(store, client_name, path, req) ==
    LET vary_val == cache_get(store, get_vary_key(client_name, path, req))
    IN IF vary_val = NoValue THEN None
       ELSE LET vary == loads_list(vary_val)
                val == cache_get(store,
                          get_response_cache_key(client_name, path, req, vary))
            IN IF val = NoValue THEN None ELSE loads_response(val)

\* the route patterns of the model
RootPath == <<Lit("/")>>

DummiesPath == <<Lit("/dummies/"), Var("name")>>

\* the client name of the calls of the cache tests
CacheClient == "dummies"

\* the requests of the calls through the cache
CRequests ==
    {HTTPRequest("GET", RootPath, EmptyDict, <<>>,
                 [h \in {"x-country-code"} |-> "FR"]),
     HTTPRequest("GET", RootPath, EmptyDict, <<>>,
                 [h \in {"X-Country-Code"} |-> "EN"]),
     HTTPRequest("GET", RootPath, EmptyDict, <<>>, EmptyDict),
     HTTPRequest("POST", RootPath, EmptyDict, <<>>,
                 [h \in {"x-country-code"} |-> "FR"])}

\* the GET requests
GetRequests == {q \in CRequests : q.method = "GET"}

\* the requests of the direct calls of cache_response and get_from_cache by
\* concurrent callers
DirectRequests == {q \in GetRequests : DOMAIN q.headers # {}}

\* the requests of the calls through the middleware
HandleRequests == {q \in CRequests : DOMAIN q.headers # {}}

\* the responses of the calls through the cache
CResponses ==
    {HTTPResponse(200, EmptyDict, "En Francais"),
     HTTPResponse(200, [h \in {"cache-control"} |->
                           <<MaxAgeDirective(1), Public>>], "En Francais"),
     HTTPResponse(200, [h \in {"cache-control"} |->
                           <<MaxAgeDirective(0), Public>>], "En Francais"),
     HTTPResponse(200, [h \in {"cache-control"} |->
                           <<MaxAgeDirective(2)>>], "En Francais"),
     HTTPResponse(200, [h \in {"cache-control"} |-> <<Public>>],
                  "En Francais")}
    \cup {HTTPResponse(200, [h \in {"cache-control", "vary"} |->
                                IF h = "vary" THEN <<"X-Country-Code">>
                                ELSE <<MaxAgeDirective(2), Public>>], b) :
             b \in Bodies}

\* what next does when it is called: it raises, or returns a response
Raises == [raises |-> TRUE, resp |-> None]

Returns(resp) == [raises |-> FALSE, resp |-> resp]

NextBehaviours == {Raises} \cup {Returns(r) : r \in CResponses}

\* a call of the cache middleware in flight: the method called (op), the
\* awaited operation it is at (at), its arguments, the Vary list it has read
\* and what next did; as history, the keys it has set, whether another call
\* has set a Vary record of other header names since it set its own, and
\* whether it is a get_from_cache that started after a cache_response call had
\* stored a response for its request, none having done so since
Flight(op, at, client_name, req, resp) ==
    [op |-> op, at |-> at, client |-> client_name, req |-> req, resp |-> resp,
     vary |-> <<>>, nxt |-> Raises, next_calls |-> 0, raised |-> FALSE,
     sets |-> <<>>, replaced |-> FALSE, follows |-> FALSE]

\* no call in flight
IdleFlight ==
    Flight("idle", "return", CacheClient,
           HTTPRequest("GET", RootPath, EmptyDict, <<>>, EmptyDict), None)

\* the awaited operations on the store
StoreOps == {"get_vary", "get_response", "set_vary", "set_response"}

\* cache_response up to its first await: it returns at once when the
\* response has no max-age, or else goes to set the Vary record
start_cache_response(client_name, req, resp) ==
    Flight("cache_response",
           IF cache_response_steps(client_name, req.url_pattern, req, resp)
                  = <<>>
           THEN "return" ELSE "set_vary",
           client_name, req, resp)

\* get_from_cache up to its first await: the get of the Vary record
start_get_from_cache(client_name, req) ==
    Flight("get_from_cache", "get_vary", client_name, req, None)

\* handle up to its first await: next is called at once for a request the
\* policy does not handle, the cache is looked up otherwise
start_handle(client_name, req) ==
    IF handle_request(req)
    THEN Flight("handle", "get_vary", client_name, req, None)
    ELSE [Flight("handle", "next", client_name, req, None)
              EXCEPT !.next_calls = 1]

\* get_from_cache found nothing: it returns None, and handle calls next
miss(f) ==
    IF f.op = "handle" THEN [f EXCEPT !.at = "next", !.next_calls = @ + 1]
    ELSE [f EXCEPT !.at = "return", !.resp = None]

\* the get of the Vary record has answered
on_vary(f, val) ==
    IF val = NoValue THEN miss(f)
    ELSE [f EXCEPT !.vary = loads_list(val), !.at = "get_response"]

on_response_ignored(f, val) ==
    IF val = NoValue \/ f.op = "handle" THEN miss(f)
    ELSE [f EXCEPT !.resp = loads_response(val), !.at = "return"]

\* the get of the response entry has answered: a response found is returned
on_response(f, val) ==
    IF val = NoValue THEN miss(f)
    ELSE [f EXCEPT !.resp = loads_response(val), !.at = "return"]

\* next has answered: handle lets the exception through, returns the response
\* of a request the policy does not handle, and otherwise calls cache_response
\* before it returns the response
on_next(f, nxt) ==
    LET g == [f EXCEPT !.nxt = nxt, !.resp = nxt.resp]
    IN IF nxt.raises THEN [g EXCEPT !.at = "return", !.raised = TRUE]
       ELSE IF ~handle_request(f.req) THEN [g EXCEPT !.at = "return"]
       ELSE [g EXCEPT !.at =
                IF cache_response_steps(f.client, f.req.url_pattern, f.req,
                                        nxt.resp) = <<>>
                THEN "return" ELSE "set_vary"]

\* one awaited call of the store by the call in flight: the store after it,
\* the flight after it, and the keys set with their ex
store_step(store, f) ==
    LET path == f.req.url_pattern
        steps == cache_response_steps(f.client, path, f.req, f.resp)
        s == steps[IF f.at = "set_vary" THEN 1 ELSE 2]
    IN CASE f.at = "get_vary" ->
              [store |-> store, keys |-> {}, ex |-> timedelta(0),
               f |-> on_vary(f, cache_get(store,
                                 get_vary_key(f.client, path, f.req)))]
         [] f.at = "get_response" ->
              [store |-> store, keys |-> {}, ex |-> timedelta(0),
               f |-> on_response(f, cache_get(store,
                                     get_response_cache_key(f.client, path,
                                                            f.req, f.vary)))]
         [] OTHER ->
              [store |-> cache_set(store, s.key, s.val, s.ex),
               keys |-> {s.key}, ex |-> s.ex,
               f |-> [f EXCEPT !.sets = Append(@, s.key),
                               !.at = IF f.at = "set_vary"
                                      THEN "set_response" ELSE "return"]]

\* the record of a step of a call of the cache middleware: op is the method
\* when the step ended the call, and the step otherwise
CacheEvent(op, f) ==
    [op |-> op, at |-> f.at, req |-> f.req, resp |-> f.resp,
     nxt |-> f.nxt, next_calls |-> f.next_calls, raised |-> f.raised,
     sets |-> f.sets, follows |-> f.follows]

NoCacheEvent == CacheEvent("none", IdleFlight)

\* the record of a step that left the flight as f
Recorded(step, f) == CacheEvent(IF f.at = "return" THEN f.op ELSE step, f)

\* the flight a step leaves: none when the call has returned
Landed(f) == IF f.at = "return" THEN IdleFlight ELSE f

\* the two responses name the same headers in their Vary header
SameVary(r1, r2) == get_vary_header_split(r1) = get_vary_header_split(r2)

\* another call has set the Vary record for the response resp: a cache_response
\* in flight that has set its own for other header names has lost it
Replaced(f, resp) ==
    IF f.op = "cache_response" /\ f.at = "set_response"
          /\ ~SameVary(f.resp, resp)
    THEN [f EXCEPT !.replaced = TRUE] ELSE f

\* a cache_response call has stored a response for req: a get_from_cache for
\* req in flight did not start after it
Superseded(f, req) ==
    IF f.op = "get_from_cache" /\ f.req = req
    THEN [f EXCEPT !.follows = FALSE] ELSE f

\* the record of the call that set a response entry: its arguments, whether
\* the Vary record has named the headers of its response ever since the call
\* set it, and whether no later call has stored a response for its request
Stored(f) ==
    [req |-> f.req, resp |-> f.resp, intact |-> ~f.replaced, last |-> TRUE]

\* the records after a set of the Vary record for the response resp
AfterVarySet(w, resp) ==
    [k \in DOMAIN w |->
        [w[k] EXCEPT !.intact = @ /\ SameVary(w[k].resp, resp)]]

\* the records after the call in flight f has set the response entry key
AfterResponseSet(w, key, f) ==
    [k \in DOMAIN w \cup {key} |->
        IF k = key THEN Stored(f)
        ELSE IF w[k].req = f.req THEN [w[k] EXCEPT !.last = FALSE]
        ELSE w[k]]

\* a caller calls cache_response directly
CacheResponseCall ==
    \E t \in Callers, q \in DirectRequests, r \in CResponses :
        LET f == start_cache_response(CacheClient, q, r)
            stores == f.at # "return"
        IN /\ inflight[t] = IdleFlight
           /\ stores => writes < MaxWrites
           /\ inflight' = [inflight EXCEPT ![t] = Landed(f)]
           /\ writes' = IF stores THEN writes + 1 ELSE writes
           /\ cevent' = Recorded("start", f)
           /\ UNCHANGED <<cache, expiry, writer, breakerVars, keysVars,
                          laterVars>>

\* a caller calls get_from_cache directly
GetFromCacheCall ==
    \E t \in Callers, q \in DirectRequests :
        LET f == [start_get_from_cache(CacheClient, q)
                      EXCEPT !.follows = \E k \in DOMAIN writer :
                                            writer[k].req = q]
        IN /\ inflight[t] = IdleFlight
           /\ Cardinality({u \in Callers :
                              inflight[u].op = "get_from_cache"}) < MaxReaders
           /\ inflight' = [inflight EXCEPT ![t] = f]
           /\ cevent' = Recorded("start", f)
           /\ UNCHANGED <<cache, expiry, writes, writer,
                          breakerVars, keysVars, laterVars>>

\* a caller calls through the middleware
CacheHandleCall ==
    \E t \in Callers, q \in HandleRequests :
        LET f == start_handle(CacheClient, q)
        IN /\ inflight[t] = IdleFlight
           /\ inflight' = [inflight EXCEPT ![t] = f]
           /\ cevent' = Recorded("start", f)
           /\ UNCHANGED <<cache, expiry, writes, writer,
                          breakerVars, keysVars, laterVars>>

\* the store answers the get or the set a call in flight awaits
CacheStoreCall ==
    \E t \in Callers :
        LET f == inflight[t]
            s == store_step(cache, f)
            sets_vary == f.at = "set_vary"
            stored == f.op = "cache_response" /\ f.at = "set_response"
        IN /\ f.op # "idle"
           /\ f.at \in StoreOps
           /\ cache' = s.store
           /\ expiry' = set_expiry(expiry, s.keys, s.ex)
           /\ inflight' = [u \in Callers |->
                             IF u = t THEN Landed(s.f)
                             ELSE IF sets_vary
                             THEN Replaced(inflight[u], f.resp)
                             ELSE IF stored
                             THEN Superseded(inflight[u], f.req)
                             ELSE inflight[u]]
           /\ cevent' = Recorded(f.at, s.f)
           /\ writer' = IF sets_vary THEN AfterVarySet(writer, f.resp)
                        ELSE IF stored
                        THEN AfterResponseSet(writer, s.f.sets[2], f)
                        ELSE writer
           /\ UNCHANGED <<writes, breakerVars, keysVars, laterVars>>

\* next answers a call through the middleware that awaits it
CacheNextReturns ==
    \E t \in Callers, nxt \in NextBehaviours :
        LET f == on_next(inflight[t], nxt)
            stores == f.at # "return"
        IN /\ inflight[t].op = "handle"
           /\ inflight[t].at = "next"
           /\ stores => writes < MaxWrites
           /\ writes' = IF stores THEN writes + 1 ELSE writes
           /\ inflight' = [inflight EXCEPT ![t] = Landed(f)]
           /\ cevent' = Recorded("next", f)
           /\ UNCHANGED <<cache, expiry, writer, breakerVars,
                          keysVars, laterVars>>

\* a second passes for the entries of the store
CacheTick ==
    /\ \E k \in DOMAIN expiry : expiry[k] > 0
    /\ expiry' = [k \in DOMAIN expiry |->
                     IF expiry[k] > 0 THEN expiry[k] - 1 ELSE 0]
    /\ UNCHANGED cache
    /\ cevent' = [NoCacheEvent EXCEPT !.op = "tick"]
    /\ UNCHANGED <<writes, writer, inflight, breakerVars, keysVars,
                   laterVars>>

\* a store that expires its entries drops one whose time has run out
Expire ==
    \E key \in DOMAIN cache :
        /\ expiry[key] = 0
        /\ cache' = [k \in DOMAIN cache \ {key} |-> cache[k]]
        /\ expiry' = [k \in DOMAIN expiry \ {key} |-> expiry[k]]
        /\ writer' = [k \in DOMAIN writer \ {key} |-> writer[k]]
        /\ cevent' = [NoCacheEvent EXCEPT !.op = "expire"]
        /\ UNCHANGED <<writes, inflight, breakerVars, keysVars,
                       laterVars>>

\* the requests of the cache_response call of SpecKeys
KRequests ==
    {HTTPRequest("GET", p[1], p[2], p[3], h) :
        p \in {<<RootPath, EmptyDict, <<>>>>,
               <<DummiesPath, [k \in {"name"} |-> "42"], <<<<"foo", "bar">>>>>>},
        h \in {EmptyDict,
               [k \in {"x-country-code"} |-> "FR"],
               [k \in {"X-Country-Code"} |-> "FR"],
               [k \in {"a", "B", "c"} |->
                   CASE k = "a" -> "A" [] k = "B" -> "B" [] OTHER -> "C"],
               [k \in {"A", "b"} |-> IF k = "A" THEN "1" ELSE "2"],
               [k \in {"b"} |-> "2"]}}

KeyInputs ==
    [client : {"dummies", "dummy"}, req : KRequests, resp : Responses]

\* the caller of the cache_response call of SpecKeys
KeysCaller == "t1"

\* the cache_response call of SpecKeys, on an empty store: its start, and
\* then each of its awaited calls of the store
KeysCacheResponse ==
    LET idle == inflight[KeysCaller] = IdleFlight
        s == IF idle
             THEN [store |-> cache, keys |-> {}, ex |-> timedelta(0),
                   f |-> start_cache_response(kin.client, kin.req, kin.resp)]
             ELSE store_step(cache, inflight[KeysCaller])
    IN /\ ~kdone
       /\ cache' = s.store
       /\ expiry' = set_expiry(expiry, s.keys, s.ex)
       /\ inflight' = [inflight EXCEPT ![KeysCaller] = Landed(s.f)]
       /\ kdone' = (s.f.at = "return")
       /\ UNCHANGED <<kin, writes, writer, cevent, breakerVars,
                      laterVars>>

(***************************************************************************)
(* Properties of the HTTP cache middleware.                                *)
(***************************************************************************)
\* the directives of the Cache-Control header of a response
Directives(resp) ==
    IF "cache-control" \in DOMAIN resp.headers
    THEN {resp.headers["cache-control"][i] :
             i \in DOMAIN resp.headers["cache-control"]}
    ELSE {}

MaxAges(resp) == {d.value : d \in {e \in Directives(resp) : e.name = "max-age"}}

\* the response has a max-age other than zero and is public
Cacheable(resp) ==
    /\ MaxAges(resp) # {}
    /\ 0 \notin MaxAges(resp)
    /\ Public \in Directives(resp)

\* the values a request has for the header called name, in any letter case
ValuesOf(req, name) ==
    {req.headers[k] : k \in {h \in DOMAIN req.headers : lower(h) = lower(name)}}

\* the response's Vary header names, each with the values req has for it
VaryValues(req, resp) ==
    IF "vary" \in DOMAIN resp.headers
    THEN {<<lower(resp.headers["vary"][i]),
            ValuesOf(req, resp.headers["vary"][i])>> :
             i \in DOMAIN resp.headers["vary"]}
    ELSE {}

\* the key of the Vary record of the calls of SpecCache: client dummies, path /
StoredVaryKey == "dummies$/"

\* the TTL of the entry has not expired: seconds of its ex are left
Live(key) == key \in DOMAIN expiry /\ expiry[key] > 0

\* the response entries a get_from_cache for req must still find: those that
\* the last cache_response call for req set, while the TTL of neither entry
\* of the call has expired
StandingFor(req) ==
    {k \in DOMAIN writer :
        /\ writer[k].req = req
        /\ writer[k].last
        /\ Live(k)
        /\ Live(StoredVaryKey)}

\* a hit gives a response that a cache_response call stored for a request
\* with the values the reading request has for the headers its Vary names
HitIsVariant(req, resp) ==
    \E k \in DOMAIN writer :
        /\ writer[k].resp = resp
        /\ VaryValues(writer[k].req, resp) = VaryValues(req, resp)

StepOf(t, op) ==
    /\ cevent'.op \in StoreOps \cup {"next", op}
    /\ inflight[t].op = op
    /\ inflight'[t] # inflight[t]

\* C8: for a GET request through the middleware, a hit returns the stored
\* response without calling next, even when next would raise; a miss calls next
\* exactly once and then applies cache_response to the response next returned.
C8_HitSkipsNext ==
    [][\A t \in Callers :
        (StepOf(t, "handle") /\ cevent'.req.method = "GET") =>
         LET e == cevent'
             f == inflight[t]
             path == f.req.url_pattern
             val == IF f.at = "get_vary"
                    THEN cache_get(cache,
                                   get_vary_key(CacheClient, path, f.req))
                    ELSE cache_get(cache,
                                   get_response_cache_key(CacheClient, path,
                                                          f.req, f.vary))
             steps == cache_response_steps(CacheClient, path, f.req,
                                           e.nxt.resp)
         IN CASE f.at \in {"get_vary", "get_response"} ->
                   /\ cache' = cache
                   /\ IF val = NoValue
                      THEN e.at = "next" /\ e.next_calls = 1
                      ELSE IF f.at = "get_vary"
                      THEN e.at = "get_response" /\ e.next_calls = 0
                      ELSE /\ e.op = "handle"
                           /\ e.resp = loads_response(val)
                           /\ e.next_calls = 0
                           /\ ~e.raised
                           /\ e.sets = <<>>
              [] f.at = "next" ->
                   /\ cache' = cache
                   /\ f.next_calls = 1
                   /\ e.next_calls = 1
                   /\ e.raised = e.nxt.raises
                   /\ ~e.raised => e.resp = e.nxt.resp
                   /\ (e.op = "handle") = (e.raised \/ steps = <<>>)
              [] OTHER ->
                   LET i == Len(e.sets)
                   IN /\ i = (IF f.at = "set_vary" THEN 1 ELSE 2)
                      /\ e.sets[i] = steps[i].key
                      /\ cache' = cache_set(cache, steps[i].key, steps[i].val,
                                            steps[i].ex)
                      /\ e.next_calls = 1
                      /\ e.resp = e.nxt.resp
                      /\ (e.op = "handle") = (i = 2)]_vars

\* a hit was served while the other caller's call of next was in flight
C8_Witness ==
    /\ cevent.op = "handle"
    /\ cevent.req.method = "GET"
    /\ cevent.next_calls = 0
    /\ cevent.resp # None
    /\ ~cevent.raised
    /\ \E u \in Callers :
          /\ inflight[u].at = "next"
          /\ inflight[u].req = cevent.req

\* C9: cache_response leaves the store unchanged for a response without
\* max-age, with max-age=0 or not public; otherwise it writes exactly two
\* entries, the Vary record and the response entry, both with the response's
\* max-age as TTL.
C9_WritePath ==
    [][LET e == cevent'
           r == e.resp
           i == Len(e.sets)
       IN /\ (e.op = "cache_response" /\ ~Cacheable(r))
             => cache' = cache /\ e.sets = <<>>
          /\ (e.op = "start" /\ e.at = "set_vary")
             => cache' = cache /\ Cacheable(r)
          /\ (e.op = "cache_response" /\ Cacheable(r))
             => i = 2 /\ e.sets[1] # e.sets[2]
          /\ ((\E t \in Callers : StepOf(t, "cache_response")) /\ Cacheable(r))
             => /\ (e.op = "cache_response") = (i = 2)
                /\ DOMAIN cache' = DOMAIN cache \cup {e.sets[i]}
                /\ \A k \in DOMAIN cache \ {e.sets[i]} : cache'[k] = cache[k]
                /\ IF i = 1
                   THEN cache'[e.sets[i]].val
                            \in {ListTexts[l] : l \in VaryLists}
                   ELSE cache'[e.sets[i]].val = ResponseTexts[r]
                /\ cache'[e.sets[i]].ex \in MaxAges(r)
                /\ expiry'[e.sets[i]] \in MaxAges(r)]_vars

\* a cacheable response with a Vary header was written while the other
\* caller's call had set its Vary record, which replaced the one of this call,
\* and not yet its response
C9_Witness ==
    /\ cevent.op = "cache_response"
    /\ Cacheable(cevent.resp)
    /\ "vary" \in DOMAIN cevent.resp.headers
    /\ Cardinality(DOMAIN cache) = 2
    /\ cache[cevent.sets[1]].ex = 1
    /\ cache[cevent.sets[2]].ex = 2
    /\ \E u \in Callers : inflight[u].at = "set_response"

\* C11: when the policy's handle_request returns false for a request, the
\* middleware reads and writes nothing: the store is unchanged, next is called
\* exactly once and what next returns or raises reaches the caller unchanged.
C11_PolicyBypass ==
    [][/\ \A t \in Callers :
             (inflight'[t].op = "handle" /\ inflight'[t].req.method # "GET")
             => /\ inflight'[t].at = "next"
                /\ inflight'[t].next_calls = 1
                /\ inflight[t] # inflight'[t] => cache' = cache
       /\ (cevent'.op = "handle" /\ cevent'.req.method # "GET")
          => /\ cache' = cache
             /\ cevent'.sets = <<>>
             /\ cevent'.next_calls = 1
             /\ cevent'.raised = cevent'.nxt.raises
             /\ cevent'.resp = cevent'.nxt.resp]_vars

\* a POST whose URL and headers have a cached response went to next, which
\* returned a cacheable response
C11_Witness ==
    /\ cevent.op = "handle"
    /\ cevent.req.method = "POST"
    /\ get_from_cache(cache, CacheClient, cevent.req.url_pattern, cevent.req)
           # None
    /\ cevent.next_calls = 1
    /\ Cacheable(cevent.resp)
    /\ cevent.resp
           # get_from_cache(cache, CacheClient, cevent.req.url_pattern,
                            cevent.req)

\* the path of the keys of the requests of SpecKeys
ExpectedPath(req) ==
    IF req.url_pattern = RootPath THEN "/" ELSE "/dummies/42?foo=bar"

\* the Vary record of a response, and the names it holds
ExpectedRecord(resp) ==
    IF "vary" \notin DOMAIN resp.headers THEN "[]"
    ELSE CASE resp.headers["vary"] = <<"X-Country-Code">>
                -> "[\"x-country-code\"]"
           [] resp.headers["vary"] = <<"a", "b">> -> "[\"a\", \"b\"]"
           [] resp.headers["vary"] = <<"B", "a">> -> "[\"b\", \"a\"]"
           [] resp.headers["vary"] = <<"A">> -> "[\"a\"]"

ExpectedNames(resp) ==
    IF "vary" \notin DOMAIN resp.headers THEN <<>>
    ELSE CASE resp.headers["vary"] = <<"X-Country-Code">> -> <<"x-country-code">>
           [] resp.headers["vary"] = <<"a", "b">> -> <<"a", "b">>
           [] resp.headers["vary"] = <<"B", "a">> -> <<"b", "a">>
           [] resp.headers["vary"] = <<"A">> -> <<"a">>

\* name=value for the request's value of the header, "" when it has none
ExpectedEntry(req, name) ==
    name \o "=" \o (IF ValuesOf(req, name) = {} THEN ""
                    ELSE CHOOSE v \in ValuesOf(req, name) : TRUE)

ExpectedSuffix(req, names) ==
    CASE Len(names) = 0 -> ""
      [] Len(names) = 1 -> ExpectedEntry(req, names[1])
      [] Len(names) = 2 -> ExpectedEntry(req, names[1]) \o "|"
                           \o ExpectedEntry(req, names[2])

\* C10: the Vary record is stored under "{client_name}${path}" and holds the
\* JSON array of the lowercased Vary names in the header's order, [] without a
\* Vary header; the response entry is stored under that key, "$" and the
\* entries name=value joined by "|" in the record's order, the value being the
\* request's header value whatever the case of its name, or "" when absent.
C10_KeyDerivation ==
    (kdone /\ Cacheable(kin.resp)) =>
        LET vk == kin.client \o "$" \o ExpectedPath(kin.req)
            rk == vk \o "$" \o ExpectedSuffix(kin.req, ExpectedNames(kin.resp))
        IN /\ DOMAIN cache = {vk, rk}
           /\ cache[vk].val = ExpectedRecord(kin.resp)
           /\ cache[rk].val = ResponseTexts[kin.resp]

\* the request with headers a, B and c and the response with Vary: a, b
C10_Witness ==
    /\ kdone
    /\ kin.client = "dummies"
    /\ kin.req.url_pattern = RootPath
    /\ DOMAIN kin.req.headers = {"a", "B", "c"}
    /\ "dummies$/$a=A|b=B" \in DOMAIN cache
    /\ cache["dummies$/"].val = "[\"a\", \"b\"]"

(***************************************************************************)
(* Middleware lists of the client factory and of its clients.              *)
(***************************************************************************)
\* the middlewares of the tests
Middlewares == {"prom", "auth", "dummy"}

\* the list object held by the factory
FactoryRef == 1

insert_back(list, m) == Append(list, m)

\* list.insert(0, m)
insert_front(list, m) == <<m>> \o list

list_share(h, ref) == [heap |-> h, ref |-> ref]

\* list.copy(): a new list object with the elements of the list ref
list_copy(h, ref) == [heap |-> Append(h, h[ref]), ref |-> Len(h) + 1]

\* the record of a call on the factory or on a client
ListEvent(op, m, client) == [op |-> op, m |-> m, client |-> client]

NoListEvent == ListEvent("none", "none", 0)

\* factory.add_middleware(m)
FactoryAddMiddleware ==
    \E m \in Middlewares :
        /\ adds < MaxAdds
        /\ heap' = [heap EXCEPT ![FactoryRef] = insert_front(@, m)]
        /\ adds' = adds + 1
        /\ levent' = ListEvent("factory.add_middleware", m, 0)
        /\ UNCHANGED clients

\* factory(client_name): the client holds a copy of the factory's list
CreateClient ==
    /\ Len(clients) < MaxClients
    /\ LET c == list_copy(heap, FactoryRef)
       IN /\ heap' = c.heap
          /\ clients' = Append(clients, c.ref)
    /\ levent' = ListEvent("factory.__call__", "none", Len(clients) + 1)
    /\ UNCHANGED adds

\* client.add_middleware(m)
ClientAddMiddleware ==
    \E i \in DOMAIN clients, m \in Middlewares :
        /\ adds < MaxAdds
        /\ heap' = [heap EXCEPT ![clients[i]] = insert_front(@, m)]
        /\ adds' = adds + 1
        /\ levent' = ListEvent("client.add_middleware", m, i)
        /\ UNCHANGED clients

\* the middlewares of the factory and of client i
FactoryMiddlewares == heap[FactoryRef]

ClientMiddlewares(i) == heap[clients[i]]

\* C12: factory.add_middleware(m) puts m at the front of the factory's list;
\* a new client gets the factory's list as it is when the client is created;
\* no add_middleware on the factory changes the list of an existing client.
C12_FactoryList ==
    [][/\ levent'.op = "factory.add_middleware" =>
            /\ heap'[FactoryRef] = <<levent'.m>> \o FactoryMiddlewares
            /\ clients' = clients
            /\ \A i \in DOMAIN clients :
                  heap'[clients'[i]] = ClientMiddlewares(i)
       /\ levent'.op = "factory.__call__" =>
            /\ Len(clients') = Len(clients) + 1
            /\ heap'[clients'[Len(clients')]] = FactoryMiddlewares
            /\ heap'[FactoryRef] = FactoryMiddlewares]_vars

\* the factory got a middleware after a client was created with a non-empty
\* list, and now holds more than the client
C12_Witness ==
    /\ levent.op = "factory.add_middleware"
    /\ clients # <<>>
    /\ Len(ClientMiddlewares(1)) = 2
    /\ Len(FactoryMiddlewares) = 3
    /\ FactoryMiddlewares[1] = levent.m
    /\ FactoryMiddlewares[1] # ClientMiddlewares(1)[1]

\* C13: client.add_middleware(m) puts m at the front of that client's list
\* and changes neither the factory's list nor the list of any other client,
\* whether created before or after.
C13_ClientList ==
    [][levent'.op = "client.add_middleware" =>
         /\ clients' = clients
         /\ heap'[clients[levent'.client]]
                = <<levent'.m>> \o ClientMiddlewares(levent'.client)
         /\ heap'[FactoryRef] = FactoryMiddlewares
         /\ \A j \in DOMAIN clients \ {levent'.client} :
               heap'[clients[j]] = ClientMiddlewares(j)]_vars

\* the first of two clients got a middleware after the second was created
C13_Witness ==
    /\ levent.op = "client.add_middleware"
    /\ levent.client = 1
    /\ Len(clients) = 2
    /\ FactoryMiddlewares # <<>>
    /\ ClientMiddlewares(2) = FactoryMiddlewares
    /\ ClientMiddlewares(1) = <<levent.m>> \o FactoryMiddlewares

(***************************************************************************)
(* One call through a middleware list.                                     *)
(***************************************************************************)
\* what a middleware of the list does in the call. Its handler suspends at
\* its first await (await self.circuit_breaker.get_breaker(client_name)), at
\* the awaited entry of its context (async with), at await next(...) and at
\* the awaited exit of its context:
\*   "next"    it enters its context, awaits next, leaves its context and
\*             hands on what next returned or raised
\*   "open"    the entry of its context raises, next is not called
\*   "return"  after its first await it returns a response, next is not called
\*   "raise"   its first await raises, next is not called
Behaviours == {"next", "open", "return", "raise"}

\* what the transport does
TransportOutcomes == {"response", "error"}

\* the middleware lists of the model
MiddlewareLists ==
    UNION {[1..n -> Behaviours] : n \in 0..MaxChain}

handler_at_reversed(mws, k) == Len(mws) + 1 - k

\* the list index of the k-th handler on the way down: next is built so that
\* the first middleware of the list is the outermost handler
handler_at(mws, k) == k

Enters(i) == [ev |-> "enter", m |-> i]

Leaves(i) == [ev |-> "leave", m |-> i]

Transport == [ev |-> "transport", m |-> 0]

\* at: where the call is suspended, in the innermost handler entered (depth)
\* or in the transport
NoCall ==
    [at |-> "idle", mws |-> <<>>, transport |-> "response", depth |-> 0,
     trace |-> <<>>, outcome |-> "none"]

\* next is called from the handler at depth c.depth (from the route proxy at
\* depth 0): the handler below runs to its first await, the innermost next
\* runs to the await of the transport
call_next(c) ==
    IF c.depth < Len(c.mws)
    THEN [c EXCEPT !.depth = @ + 1,
                   !.at = "get_breaker",
                   !.trace = Append(@, Enters(handler_at(c.mws, c.depth + 1)))]
    ELSE [c EXCEPT !.at = "transport",
                   !.trace = Append(@, Transport)]

\* what was awaited by the handler at depth c.depth (by the route proxy at
\* depth 0) returned or raised: the handler runs to the awaited exit of its
\* context, the route proxy has the outcome of the call
resume(c, outcome) ==
    [c EXCEPT !.outcome = outcome,
              !.at = IF c.depth = 0 THEN "done" ELSE "aexit"]

\* the innermost handler entered returns or raises to the one that awaits it
leave(c, outcome) ==
    resume([c EXCEPT !.depth = @ - 1,
                     !.trace = Append(@, Leaves(handler_at(c.mws, c.depth)))],
           outcome)

\* the route proxy starts a call through its middleware list: it awaits next
ChainStart ==
    \E mws \in MiddlewareLists, t \in TransportOutcomes :
        /\ chain.at \in {"idle", "done"}
        /\ chain' = call_next([at |-> "idle", mws |-> mws, transport |-> t,
                               depth |-> 0, trace |-> <<>>,
                               outcome |-> "none"])

\* the first await of the innermost handler entered is answered: the handler
\* goes on to the awaited entry of its context, or it returns or raises
ChainGetBreakerReturns ==
    /\ chain.at = "get_breaker"
    /\ LET b == chain.mws[handler_at(chain.mws, chain.depth)]
       IN chain' = CASE b = "return" -> leave(chain, "response")
                     [] b = "raise" -> leave(chain, "error")
                     [] OTHER -> [chain EXCEPT !.at = "aenter"]

\* the awaited entry of the context is answered: the handler awaits next, or
\* the entry raised and the handler raises
ChainContextEnters ==
    /\ chain.at = "aenter"
    /\ LET b == chain.mws[handler_at(chain.mws, chain.depth)]
       IN chain' = IF b = "open" THEN leave(chain, "error")
                   ELSE call_next(chain)

\* the transport answers the innermost next
ChainTransportReturns ==
    /\ chain.at = "transport"
    /\ chain' = resume(chain, chain.transport)

\* the awaited exit of the context is answered: the handler hands on what
\* next returned or raised
ChainContextExits ==
    /\ chain.at = "aexit"
    /\ chain' = leave(chain, chain.outcome)

\* the first middleware of the list that does not call next, Len + 1 if none
FirstStop(mws) ==
    IF \A i \in DOMAIN mws : mws[i] = "next" THEN Len(mws) + 1
    ELSE CHOOSE i \in DOMAIN mws :
            /\ mws[i] # "next"
            /\ \A j \in 1..(i - 1) : mws[j] = "next"

\* the trace of a whole call: m1, ..., down to the first middleware that does
\* not call next or to the transport, and back up to m1
ExpectedTrace(mws) ==
    LET stop == FirstStop(mws)
        last == IF stop > Len(mws) THEN Len(mws) ELSE stop
    IN [k \in 1..last |-> Enters(k)]
       \o (IF stop > Len(mws) THEN <<Transport>> ELSE <<>>)
       \o [k \in 1..last |-> Leaves(last + 1 - k)]

TransportCalls(trace) == Cardinality({k \in DOMAIN trace : trace[k] = Transport})

Methods == {"HEAD", "GET", "POST", "PUT", "PATCH", "DELETE", "OPTIONS"}

\* the verb methods: head .. options and collection_head .. collection_options
Verbs == [collection : BOOLEAN, method : Methods]

\* Python's None
PyNone == [kind |-> "None"]

\* HTTPTimeout()'s default for the whole request, in seconds
DefaultReadTimeout == 30

\* HTTPTimeout()'s default for the connection, in seconds
DefaultConnectTimeout == 15

\* HTTPTimeout(*args): the positional arguments left out take the defaults
HTTPTimeout(args) ==
    [kind |-> "HTTPTimeout",
     read |-> IF Len(args) >= 1 THEN args[1] ELSE DefaultReadTimeout,
     connect |-> IF Len(args) >= 2 THEN args[2] ELSE DefaultConnectTimeout]

\* a float, an int and a tuple of numbers
PyFloat(v) == [kind |-> "float", v |-> v]

PyInt(v) == [kind |-> "int", v |-> v]

PyTuple(v) == [kind |-> "tuple", v |-> v]

\* HTTPUnauthenticated() and HTTPAuthorization("Bearer", value)
HTTPUnauthenticated == [kind |-> "HTTPUnauthenticated"]

HTTPAuthorization(value) == [kind |-> "HTTPAuthorization", value |-> value]

\* the truth value Python gives to an object
truthy(x) ==
    CASE x.kind = "None" -> FALSE
      [] x.kind \in {"float", "int"} -> x.v # 0
      [] x.kind = "tuple" -> Len(x.v) > 0
      [] x.kind = "list" -> Len(x.items) > 0
      [] OTHER -> TRUE

py_or_second(a, b) == IF truthy(b) THEN b ELSE a

\* a or b
py_or(a, b) == IF truthy(a) THEN a ELSE b

build_timeout(timeout) ==
    IF timeout.kind = "float" THEN HTTPTimeout(<<timeout.v>>)
    ELSE IF timeout.kind = "tuple" THEN HTTPTimeout(timeout.v)
    ELSE timeout

\* the request and response schemas of the registered contracts
Schema(name) == [kind |-> "schema", name |-> name]

\* a contract: per method its request schema and its response schema
Contract(methods) == [kind |-> "contract", methods |-> methods]

\* a registered route
HttpResource(path, contract) ==
    [kind |-> "HttpResource", path |-> path, contract |-> contract]

\* GET with a response schema, POST without one
DummyContract ==
    Contract([m \in {"GET", "POST"} |->
                 IF m = "GET"
                 THEN [param |-> Schema("GetParam"), ret |-> Schema("GetResponse")]
                 ELSE [param |-> Schema("PostParam"), ret |-> PyNone]])

\* what a route of a resource can be: absent, without contract, with one
RouteChoices(path) ==
    {PyNone, HttpResource(path, PyNone), HttpResource(path, DummyContract)}

\* resource.routes, for every registration of the resource
ApiRoutes ==
    [resource : RouteChoices("/dummies/{name}"), collection : RouteChoices("/dummies")]

\* params as an instance of a request schema, as a dict, or left out
Instance(schema) == [kind |-> "instance", schema |-> schema]

Dict == [kind |-> "dict"]

ParamChoices == {PyNone, Dict, Instance(Schema("GetParam")), Instance(Schema("PostParam"))}

\* a request without an Authorization header
NoHeader == "<absent>"

\* HTTPRequest.merge_authentication: the Authorization header of the request
merge_authentication(req, auth) ==
    [req EXCEPT !.authorization =
        IF auth.kind = "HTTPAuthorization" THEN auth.value ELSE @]

\* Request.to_http_request(url)
to_http_request(params, url) ==
    [url |-> url, schema |-> params.schema, authorization |-> NoHeader]

\* the error a preparation raises, "" when it raises none
Raised(exc) == [raised |-> exc, req |-> PyNone, return_schema |-> PyNone]

prepare_request_unchecked(self, method, params, resource, auth) ==
    IF resource = PyNone
    THEN Raised("UnregisteredRouteException")
    ELSE IF resource.contract = PyNone
              \/ method \notin DOMAIN resource.contract.methods
    THEN Raised("NoContractException")
    ELSE LET param_schema == resource.contract.methods[method].param
             return_schema == resource.contract.methods[method].ret
             built == IF params.kind = "dict" THEN Instance(param_schema)
                      ELSE IF params.kind = "None" THEN Instance(param_schema)
                      ELSE params
         IN [raised |-> "",
             req |-> merge_authentication(
                        to_http_request(built, self.endpoint \o resource.path),
                        auth),
             return_schema |-> return_schema]

\* RouteProxy._prepare_request
prepare_request(self, method, params, resource, auth) ==
    IF resource = PyNone
    THEN Raised("UnregisteredRouteException")
    ELSE IF resource.contract = PyNone
              \/ method \notin DOMAIN resource.contract.methods
    THEN Raised("NoContractException")
    ELSE LET param_schema == resource.contract.methods[method].param
             return_schema == resource.contract.methods[method].ret
             built == IF params.kind = "dict" THEN Instance(param_schema)
                      ELSE IF params.kind = "None" THEN Instance(param_schema)
                      ELSE params
         IN IF params.kind \notin {"dict", "None"} /\ params.schema # param_schema
            THEN Raised("WrongRequestTypeException")
            ELSE [raised |-> "",
                  req |-> merge_authentication(
                             to_http_request(built, self.endpoint \o resource.path),
                             auth),
                  return_schema |-> return_schema]

\* RouteProxy._prepare_response
prepare_response(response_schema) ==
    IF truthy(response_schema)
    THEN [kind |-> "Response", schema |-> response_schema]
    ELSE [kind |-> "json"]

\* RouteProxy._prepare_collection_response: a generator over the items
prepare_collection_response(response_schema) ==
    [kind |-> "generator", schema |-> response_schema]

\* what the transport does with a request: it returns the response of the
\* service, or raises HTTPError
TransportBehaviours == {"response", "HTTPError"}

NoSent == [method |-> "", req |-> PyNone, timeout |-> PyNone]

\* _request, _collection_request and _yield_collection_request up to the
\* await of transport.request, called with (params, auth, timeout) resolved:
\* the preparation raises, or the request is handed to the transport
request_call(self, verb, params, auth, timeout) ==
    LET resource == IF verb.collection THEN self.routes.collection
                    ELSE self.routes.resource
        prep == prepare_request(self, verb.method, params, resource, auth)
    IN IF prep.raised # ""
       THEN [raised |-> prep.raised, transport_calls |-> 0, sent |-> NoSent,
             return_schema |-> PyNone]
       ELSE [raised |-> "", transport_calls |-> 1,
             sent |-> [method |-> verb.method, req |-> prep.req,
                       timeout |-> timeout],
             return_schema |-> prep.return_schema]

\* the same methods after the await: the HTTPError of the transport reaches
\* the caller, the response of the service is prepared and returned
request_return(verb, return_schema, transport) ==
    IF transport = "HTTPError"
    THEN [raised |-> "HTTPError", result |-> PyNone]
    ELSE [raised |-> "",
          result |-> IF verb.collection /\ verb.method = "GET"
                     THEN prepare_collection_response(return_schema)
                     ELSE prepare_response(return_schema)]

\* a verb method of the route proxy, head .. collection_options, up to the
\* await of transport.request
verb_method(self, verb, params, auth, timeout) ==
    request_call(self, verb, params, py_or(auth, self.auth),
                 build_timeout(py_or(timeout, self.timeout)))

\* Client.__getattr__: the route proxy of a resource of the client
RouteProxy(client, routes) ==
    [endpoint |-> client.endpoint, routes |-> routes,
     auth |-> client.auth, timeout |-> client.timeout]

\* the arguments a factory, a client and a call are given
FactoryAuths == {HTTPUnauthenticated, HTTPAuthorization("Bearer fa")}

FactoryTimeouts == {HTTPTimeout(<<>>), PyFloat(7), PyTuple(<<8, 3>>), PyInt(9)}

ClientAuths == {PyNone, HTTPAuthorization("Bearer cl")}

CallAuths == {PyNone, HTTPAuthorization("Bearer ca")}

CallTimeouts ==
    {PyNone, PyFloat(5), PyFloat(0), PyInt(5), PyTuple(<<5, 2>>), HTTPTimeout(<<10, 20>>)}

\* the client names the factory is asked for; only "api" is registered
FactoryClientNames == {"api", "other"}

\* the resources registered for the client "api"
ApiResources ==
    [r \in {"dummies"} |->
        [resource |-> HttpResource("/dummies/{name}", DummyContract),
         collection |-> HttpResource("/dummies", DummyContract)]]

\* registry.get_service(client_name): the service and its resources, or the
\* error of a client that was never registered
get_service(client_name) ==
    IF client_name = "api"
    THEN [raised |-> "", srv |-> <<"api", "v1">>, resources |-> ApiResources]
    ELSE [raised |-> "UnregisteredClientException", srv |-> <<>>,
          resources |-> <<>>]

\* what sd.get_endpoint(service, version) may answer: an endpoint, which may
\* differ from one call to the next, or an error
NoAnswer == [raised |-> "", endpoint |-> ""]

SDAnswers ==
    {[raised |-> "", endpoint |-> "http://8.8.8.8:1234"],
     [raised |-> "", endpoint |-> "http://8.8.4.4:1234"],
     [raised |-> "UnregisteredServiceException", endpoint |-> ""],
     [raised |-> "ConsulApiError", endpoint |-> ""]}

\* Client.__init__
Client(name, endpoint, resources, transport, auth, timeout) ==
    [kind |-> "Client", name |-> name, endpoint |-> endpoint,
     resources |-> resources, transport |-> transport, auth |-> auth,
     timeout |-> timeout]

\* ClientFactory.__call__ up to the await of sd.get_endpoint: the registry
\* lookup raises, or service discovery is called for the service
factory_call(self, client_name) ==
    LET svc == get_service(client_name)
    IN IF svc.raised # ""
       THEN [raised |-> svc.raised, sd_calls |-> 0, resources |-> <<>>]
       ELSE [raised |-> "", sd_calls |-> 1, resources |-> svc.resources]

\* a factory that makes a client without endpoint when get_endpoint raises
factory_return_swallow(self, client_name, auth, resources, answer) ==
    [raised |-> "",
     client |-> Client(client_name, answer.endpoint, resources,
                       self.transport, py_or(auth, self.auth), self.timeout)]

\* ClientFactory.__call__ after the await, answer being what sd.get_endpoint
\* did: its error reaches the caller, or the Client is made with the endpoint
factory_return(self, client_name, auth, resources, answer) ==
    IF answer.raised # ""
    THEN [raised |-> answer.raised, client |-> PyNone]
    ELSE [raised |-> "",
          client |-> Client(client_name, answer.endpoint, resources,
                            self.transport, py_or(auth, self.auth),
                            self.timeout)]

\* what sd.get_endpoint answers the factory of the route proxy calls: an
\* endpoint, or the error of a service it does not know
ProxyAnswers ==
    {a \in SDAnswers :
        \/ a.endpoint = "http://8.8.8.8:1234"
        \/ a.raised = "UnregisteredServiceException"}

NoProxyCall == [op |-> "none"]

\* the call of the factory in flight, with its arguments, or the error the
\* last call raised
Making(at, client_name, auth, resources, raised) ==
    [at |-> at, client_name |-> client_name, auth |-> auth,
     resources |-> resources, raised |-> raised]

NoMaking == Making("none", "", PyNone, <<>>, "")

\* nothing constructed yet; given is the auth the client was asked with
\* (history)
NoProxy ==
    [factory |-> PyNone, client |-> PyNone, given |-> PyNone,
     making |-> NoMaking, call |-> NoProxyCall]

\* ClientFactory(sd, auth=..., timeout=...)
ClientFactoryInit ==
    /\ proxy.factory = PyNone
    /\ \E auth \in FactoryAuths, timeout \in FactoryTimeouts :
          proxy' = [proxy EXCEPT !.factory =
                       [kind |-> "ClientFactory", transport |-> "FakeTransport",
                        auth |-> auth, timeout_arg |-> timeout,
                        timeout |-> build_timeout(timeout)]]

\* client_factory(client_name, auth=...) up to its await, also while a call of
\* a verb method awaits the transport: the registry lookup has raised, or the
\* call awaits sd.get_endpoint
ClientFactoryCall ==
    /\ proxy.factory # PyNone
    /\ proxy.making.at # "get_endpoint"
    /\ \E client_name \in FactoryClientNames, auth \in ClientAuths :
          LET out == factory_call(proxy.factory, client_name)
          IN proxy' = [proxy EXCEPT !.making =
                          IF out.raised # ""
                          THEN Making("raised", "", PyNone, <<>>, out.raised)
                          ELSE Making("get_endpoint", client_name, auth,
                                      out.resources, "")]

\* sd.get_endpoint answers the call of the factory that awaits it: its error
\* reaches the caller, who keeps the client it had, or the Client is made
ClientFactoryReturns ==
    /\ proxy.making.at = "get_endpoint"
    /\ \E answer \in ProxyAnswers :
          LET m == proxy.making
              out == factory_return(proxy.factory, m.client_name, m.auth,
                                    m.resources, answer)
          IN proxy' = [proxy EXCEPT
                          !.client = IF out.raised = "" THEN out.client ELSE @,
                          !.given = IF out.raised = "" THEN m.auth ELSE @,
                          !.making = IF out.raised = "" THEN NoMaking
                                     ELSE Making("raised", "", PyNone, <<>>,
                                                 out.raised)]

\* client.dummies.<verb>(params, auth=..., timeout=...) up to its await: the
\* call has raised an error of the preparation, or awaits the transport
VerbCall ==
    /\ proxy.client # PyNone
    /\ proxy.call = NoProxyCall
    /\ \E verb \in Verbs, routes \in ApiRoutes, params \in ParamChoices,
          auth \in CallAuths, timeout \in CallTimeouts :
          LET self == RouteProxy(proxy.client, routes)
              out == verb_method(self, verb, params, auth, timeout)
          IN proxy' = [proxy EXCEPT !.call =
                          [op |-> "verb",
                           at |-> IF out.raised # "" THEN "returned"
                                  ELSE "transport",
                           client |-> proxy.client, given |-> proxy.given,
                           verb |-> verb, routes |-> routes,
                           params |-> params, auth |-> auth,
                           timeout |-> timeout, transport |-> "pending",
                           raised |-> out.raised, result |-> PyNone,
                           transport_calls |-> out.transport_calls,
                           sent |-> out.sent,
                           return_schema |-> out.return_schema]]

\* transport.request answers the call that awaits it
TransportReturns ==
    /\ proxy.call.op = "verb"
    /\ proxy.call.at = "transport"
    /\ \E transport \in TransportBehaviours :
          LET out == request_return(proxy.call.verb, proxy.call.return_schema,
                                    transport)
          IN proxy' = [proxy EXCEPT !.call.at = "returned",
                                    !.call.transport = transport,
                                    !.call.raised = out.raised,
                                    !.call.result = out.result]

\* the caller has its result and goes on
VerbDone ==
    /\ proxy.call.op = "verb"
    /\ proxy.call.at = "returned"
    /\ proxy' = [proxy EXCEPT !.call = NoProxyCall]

\* the route a verb method prepares its request from
RouteOf(c) ==
    IF c.verb.collection THEN c.routes.collection ELSE c.routes.resource

\* the errors of the preparation of a request
PreparationErrors ==
    {"UnregisteredRouteException", "NoContractException",
     "WrongRequestTypeException"}

\* the route of the call has a contract for its method
HasContract(c) ==
    /\ RouteOf(c) # PyNone
    /\ RouteOf(c).contract # PyNone
    /\ c.verb.method \in DOMAIN RouteOf(c).contract.methods

\* C15: for every verb method, item and collection, a missing route raises
\* the unregistered-route error; otherwise a missing contract or a method
\* absent from the contract raises the no-contract error; otherwise params
\* that are an instance of another schema raise the wrong-request-type
\* error; whenever one of the three is raised the transport is not invoked,
\* and a call that passes the three checks reaches the transport once.
C15_PreparationOrder ==
    LET c == proxy.call
    IN c.op = "verb" =>
         /\ RouteOf(c) = PyNone => c.raised = "UnregisteredRouteException"
         /\ (RouteOf(c) # PyNone /\ ~HasContract(c)) =>
               c.raised = "NoContractException"
         /\ HasContract(c) =>
               LET param_schema ==
                       RouteOf(c).contract.methods[c.verb.method].param
                   wrong == /\ c.params.kind = "instance"
                            /\ c.params.schema # param_schema
               IN /\ wrong => c.raised = "WrongRequestTypeException"
                  /\ ~wrong => /\ c.raised \notin PreparationErrors
                               /\ c.transport_calls = 1
         /\ c.raised \in PreparationErrors =>
               /\ c.transport_calls = 0
               /\ c.sent = NoSent
               /\ c.result = PyNone

\* collection_post was called with an instance of the GET schema on a
\* collection route whose contract has POST: the wrong-request-type error
\* was raised and the transport was not called
C15_Witness ==
    /\ proxy.call.op = "verb"
    /\ proxy.call.verb = [collection |-> TRUE, method |-> "POST"]
    /\ proxy.call.routes.resource = PyNone
    /\ HasContract(proxy.call)
    /\ proxy.call.params = Instance(Schema("GetParam"))
    /\ proxy.call.raised = "WrongRequestTypeException"
    /\ proxy.call.transport_calls = 0

\* the authentication in force for a call: the call's if one is given,
\* otherwise the one the client of the call was created with, otherwise the
\* factory's
AuthInForce ==
    IF proxy.call.auth # PyNone THEN proxy.call.auth
    ELSE IF proxy.call.given # PyNone THEN proxy.call.given
    ELSE proxy.factory.auth

\* C16: the Authorization of the request that reaches the transport is the
\* one given for the call if any, otherwise the one given for the client,
\* otherwise the factory's (none when the factory is unauthenticated).
C16_AuthPrecedence ==
    (proxy.call.op = "verb" /\ proxy.call.transport_calls = 1) =>
        proxy.call.sent.req.authorization =
            (IF AuthInForce.kind = "HTTPAuthorization"
             THEN AuthInForce.value ELSE NoHeader)

\* the factory has Bearer fa, the client Bearer cl, the call Bearer ca: the
\* request that reached the transport carries Bearer ca, also after the
\* factory has made another client while the call awaits the transport, and
\* while a further call of the factory awaits service discovery
C16_Witness ==
    /\ proxy.call.op = "verb"
    /\ proxy.call.at = "transport"
    /\ proxy.factory.auth = HTTPAuthorization("Bearer fa")
    /\ proxy.call.given = HTTPAuthorization("Bearer cl")
    /\ proxy.call.client.auth = HTTPAuthorization("Bearer cl")
    /\ proxy.given = PyNone
    /\ proxy.client.auth = HTTPAuthorization("Bearer fa")
    /\ proxy.making.at = "get_endpoint"
    /\ proxy.call.auth = HTTPAuthorization("Bearer ca")
    /\ proxy.call.transport_calls = 1
    /\ proxy.call.sent.req.authorization = "Bearer ca"

\* the timeout in force for a call: the call's if one is given, otherwise
\* the one the factory, and so its client, was created with
TimeoutInForce ==
    IF proxy.call.timeout # PyNone THEN proxy.call.timeout
    ELSE proxy.factory.timeout_arg

\* a timeout as an HTTPTimeout: a scalar is the total and keeps the default
\* connect value, a pair is total and connect, an HTTPTimeout is itself
AsHTTPTimeout(t) ==
    IF t.kind \in {"float", "int"} THEN HTTPTimeout(<<t.v>>)
    ELSE IF t.kind = "tuple" THEN HTTPTimeout(t.v)
    ELSE t

\* C17: the timeout handed to the transport is the per-call timeout when one
\* is given, otherwise the client's, otherwise the factory default of 30 s
\* total and 15 s connect, and it is always an HTTPTimeout: a scalar sets
\* the total only, a pair sets total and connect, an HTTPTimeout is passed
\* through unchanged.
C17_TimeoutResolution ==
    (proxy.call.op = "verb" /\ proxy.call.transport_calls = 1) =>
        /\ proxy.call.sent.timeout.kind = "HTTPTimeout"
        /\ proxy.call.sent.timeout = AsHTTPTimeout(TimeoutInForce)

\* C20: a collection GET whose transport call fails raises the HTTP error to
\* the caller at call time, instead of returning an iterator or a box
\* holding the error; every other verb, item or collection, returns a box.
C20_CollectionGetRaises ==
    (/\ proxy.call.op = "verb"
     /\ proxy.call.transport_calls = 1
     /\ proxy.call.at = "returned") =>
        IF proxy.call.verb = [collection |-> TRUE, method |-> "GET"]
        THEN proxy.call.transport = "HTTPError" =>
                /\ proxy.call.raised = "HTTPError"
                /\ proxy.call.result = PyNone
        ELSE /\ proxy.call.raised = ""
             /\ proxy.call.result.kind = "ResponseBox"

(***************************************************************************)
(* ResponseBox (blacksmith/domain/model/params.py).                        *)
(***************************************************************************)
\* Ok(value) and Err(error) of the result library
ResultOk(value) == [kind |-> "Ok", value |-> value]

ResultErr(error) == [kind |-> "Err", value |-> error]

\* how a call ends: it returns a value or raises an exception
Return(value) == [raised |-> "", value |-> value]

Raise(exc) == [raised |-> exc, value |-> PyNone]

\* a callable given by the caller, applied to x (to nothing: PyNone)
Applied(op, x) == [kind |-> "applied", op |-> op, to |-> x]

\* the json bodies of the responses: a user with a field the schema does
\* not have, a user, and no body
AliceJson == [name |-> "Alice", age |-> 24, useless |-> TRUE]

BobJson == [name |-> "Bob", age |-> 42]

NoJson == [none |-> TRUE]

\* the json body of an error response
ErrorJson ==
    [message |-> "Internal Server Error", detail |-> "too many connections"]

UnprocessableJson == [message |-> "Unprocessable Entity", detail |-> "name"]

\* resp.json or {}
json_or_empty(json) == IF json = NoJson THEN <<>> ELSE json

\* GetResponse(**json): name and age are required, other keys are ignored
GetResponse(json) ==
    IF {"name", "age"} \subseteq DOMAIN json
    THEN Return([kind |-> "GetResponse", name |-> json.name, age |-> json.age])
    ELSE Raise("ValidationError")

\* the response schemas a box is built with: none, or GetResponse
ResponseSchemas == {PyNone, Schema("GetResponse")}

\* an HTTP response with a json body, and HTTPError(message, request,
\* response): the error keeps the response it was raised for
BoxResponse(status_code, json) ==
    [kind |-> "HTTPResponse", status_code |-> status_code, json |-> json]

BoxError(response) ==
    [kind |-> "HTTPError", status_code |-> response.status_code,
     response |-> response]

\* the results a box is built from
RawResults ==
    {ResultOk(BoxResponse(200, AliceJson)), ResultOk(BoxResponse(200, BobJson)),
     ResultOk(BoxResponse(204, NoJson)),
     ResultErr(BoxError(BoxResponse(500, ErrorJson))),
     ResultErr(BoxError(BoxResponse(422, UnprocessableJson))),
     ResultErr(BoxError(BoxResponse(500, NoJson)))}

\* the methods of Result
result_is_ok(r) == r.kind = "Ok"

result_is_err(r) == r.kind = "Err"

result_unwrap(r) ==
    IF r.kind = "Ok" THEN Return(r.value) ELSE Raise("UnwrapError")

result_unwrap_err(r) ==
    IF r.kind = "Err" THEN Return(r.value) ELSE Raise("UnwrapError")

result_unwrap_or(r, default) ==
    IF r.kind = "Ok" THEN Return(r.value) ELSE Return(default)

result_unwrap_or_else(r, op) ==
    IF r.kind = "Ok" THEN Return(r.value) ELSE Return(Applied(op, r.value))

result_map(r, op) ==
    IF r.kind = "Ok" THEN Return(ResultOk(Applied(op, r.value))) ELSE Return(r)

result_map_or(r, default, op) ==
    IF r.kind = "Ok" THEN Return(Applied(op, r.value)) ELSE Return(default)

result_map_or_else(r, default_op, op) ==
    IF r.kind = "Ok" THEN Return(Applied(op, r.value))
    ELSE Return(Applied(default_op, PyNone))

result_map_err(r, op) ==
    IF r.kind = "Ok" THEN Return(r) ELSE Return(ResultErr(Applied(op, r.value)))

result_and_then(r, op) ==
    IF r.kind = "Ok" THEN Return(Applied(op, r.value)) ELSE Return(r)

result_or_else(r, op) ==
    IF r.kind = "Ok" THEN Return(r) ELSE Return(Applied(op, r.value))

\* ResponseBox(result, response_schema, ...)
ResponseBox(result, response_schema) ==
    [kind |-> "ResponseBox", raw_result |-> result,
     response_schema |-> response_schema]

\* a box that hands out the raw body when it has no response schema
cast_resp_lenient(self, resp) ==
    IF self.response_schema = PyNone
    THEN Return(resp.json)
    ELSE GetResponse(json_or_empty(resp.json))

\* ResponseBox._cast_resp
cast_resp(self, resp) ==
    IF self.response_schema = PyNone
    THEN Raise("NoResponseSchemaException")
    ELSE GetResponse(json_or_empty(resp.json))

map_cast_resp_swallow(self) ==
    IF self.raw_result.kind = "Ok"
    THEN LET cast == cast_resp(self, self.raw_result.value)
         IN IF cast.raised # "" THEN cast ELSE Return(ResultOk(cast.value))
    ELSE Return(ResultOk(self.raw_result.value))

\* self.raw_result.map(self._cast_resp)
map_cast_resp(self) ==
    IF self.raw_result.kind = "Ok"
    THEN LET cast == cast_resp(self, self.raw_result.value)
         IN IF cast.raised # "" THEN cast ELSE Return(ResultOk(cast.value))
    ELSE Return(self.raw_result)

\* the call f(r) on the result of an expression that may have raised
Then(outcome, f(_)) == IF outcome.raised # "" THEN outcome ELSE f(outcome.value)

\* HTTPError.response: the response the error was raised for
error_response(error) == error.response

\* ResponseBox.json: the raw json of the response, or of the error's response
box_json(self) ==
    IF result_is_ok(self.raw_result)
    THEN Return(self.raw_result.value.json)
    ELSE Return(error_response(self.raw_result.value).json)

\* the accessors of ResponseBox
is_ok(self) == Return(result_is_ok(self.raw_result))

is_err(self) == Return(result_is_err(self.raw_result))

unwrap(self) == Then(map_cast_resp(self), result_unwrap)

unwrap_err(self) == result_unwrap_err(self.raw_result)

unwrap_or(self, default) ==
    Then(map_cast_resp(self), LAMBDA r : result_unwrap_or(r, default))

unwrap_or_else(self, op) ==
    Then(map_cast_resp(self), LAMBDA r : result_unwrap_or_else(r, op))

\* Result.expect and expect_err raise UnwrapError with the message given
expect(self, message) == Then(map_cast_resp(self), result_unwrap)

expect_err(self, message) == result_unwrap_err(self.raw_result)

map(self, op) == Then(map_cast_resp(self), LAMBDA r : result_map(r, op))

map_or(self, default, op) ==
    Then(map_cast_resp(self), LAMBDA r : result_map_or(r, default, op))

map_or_else(self, default_op, op) ==
    Then(map_cast_resp(self), LAMBDA r : result_map_or_else(r, default_op, op))

map_err(self, op) == Then(map_cast_resp(self), LAMBDA r : result_map_err(r, op))

and_then(self, op) == Then(map_cast_resp(self), LAMBDA r : result_and_then(r, op))

or_else(self, op) == Then(map_cast_resp(self), LAMBDA r : result_or_else(r, op))

\* the arguments the caller gives: a default response and callables
DefaultResponse == [kind |-> "GetResponse", name |-> "Bob", age |-> 40]

Accessors ==
    {"is_ok", "is_err", "unwrap", "unwrap_err", "unwrap_or", "unwrap_or_else",
     "expect", "expect_err", "map", "map_or", "map_or_else", "map_err",
     "and_then", "or_else", "json"}

\* the accessor of that name called on the box
call_accessor(self, name) ==
    CASE name = "is_ok" -> is_ok(self)
      [] name = "is_err" -> is_err(self)
      [] name = "unwrap" -> unwrap(self)
      [] name = "unwrap_err" -> unwrap_err(self)
      [] name = "unwrap_or" -> unwrap_or(self, DefaultResponse)
      [] name = "unwrap_or_else" -> unwrap_or_else(self, "default_op")
      [] name = "expect" -> expect(self, "message")
      [] name = "expect_err" -> expect_err(self, "message")
      [] name = "map" -> map(self, "op")
      [] name = "map_or" -> map_or(self, DefaultResponse, "op")
      [] name = "map_or_else" -> map_or_else(self, "default_op", "op")
      [] name = "map_err" -> map_err(self, "op")
      [] name = "and_then" -> and_then(self, "op")
      [] name = "or_else" -> or_else(self, "op")
      [] name = "json" -> box_json(self)

NoAccessorCall == [name |-> "none", out |-> Return(PyNone)]

\* no box built yet
NoBox == [self |-> PyNone, calls |-> 0, last |-> NoAccessorCall]

\* a box is built around the result of a call
BoxInit ==
    /\ box.self = PyNone
    /\ \E result \in RawResults, response_schema \in ResponseSchemas :
          box' = [box EXCEPT !.self = ResponseBox(result, response_schema)]

\* an accessor of the box is called
AccessorCall ==
    /\ box.self # PyNone
    /\ box.calls < MaxBoxCalls
    /\ \E name \in Accessors :
          box' = [box EXCEPT !.calls = @ + 1,
                             !.last = [name |-> name,
                                       out |-> call_accessor(box.self, name)]]

\* exactly one of is_ok() and is_err() is true, each as the result says
OneFlag(b) ==
    /\ is_ok(b.self).value # is_err(b.self).value
    /\ is_ok(b.self).value = (b.self.raw_result.kind = "Ok")
    /\ b.last.name = "is_ok" => b.last.out = Return(b.self.raw_result.kind = "Ok")
    /\ b.last.name = "is_err" => b.last.out = Return(b.self.raw_result.kind = "Err")

\* on Err no accessor turns the failure into a success
ErrClauses(b) ==
    b.self.raw_result.kind = "Err" =>
        LET e == b.self.raw_result.value
            n == b.last.name
            out == b.last.out
        IN /\ n \in {"unwrap", "expect"} => out.raised = "UnwrapError"
           /\ n \in {"unwrap_err", "expect_err"} => out = Return(e)
           /\ n \in {"unwrap_or", "map_or"} => out = Return(DefaultResponse)
           /\ n = "unwrap_or_else" => out = Return(Applied("default_op", e))
           /\ n = "map_or_else" => out = Return(Applied("default_op", PyNone))
           /\ n \in {"map", "and_then"} => out = Return(ResultErr(e))

\* on Ok the accessors of the error raise
OkErrClauses(b) ==
    (b.self.raw_result.kind = "Ok" /\ b.last.name \in {"unwrap_err", "expect_err"})
        => b.last.out.raised = "UnwrapError"

\* the body of the response of an Ok box has the fields of the schema
Validates(b) == {"name", "age"} \subseteq DOMAIN b.self.raw_result.value.json

\* the response of an Ok box parsed with GetResponse
Parsed(b) ==
    [kind |-> "GetResponse",
     name |-> b.self.raw_result.value.json.name,
     age |-> b.self.raw_result.value.json.age]

\* C18 as stated: exactly one of is_ok() and is_err() is true and it never
\* changes over the accessor calls; on Err, unwrap and expect raise,
\* unwrap_err and expect_err return the error, unwrap_or, unwrap_or_else,
\* map_or and map_or_else return the caller's fallback, map and and_then
\* return the Err; on Ok, unwrap_err and expect_err raise and unwrap returns
\* the parsed response.
C18_UnwrapReturnsOnOk ==
    [][box'.self # PyNone =>
         /\ OneFlag(box')
         /\ box.self # PyNone => is_ok(box'.self) = is_ok(box.self)
         /\ ErrClauses(box')
         /\ OkErrClauses(box')
         /\ (box'.self.raw_result.kind = "Ok" /\ box'.last.name = "unwrap") =>
               box'.last.out.raised = ""]_vars

\* C18, amended: as stated, except that on Ok unwrap returns the parsed
\* response only when the box has a response schema and the body has the
\* fields of the schema; without a response schema it raises
\* NoResponseSchemaException, and with a body that lacks a required field it
\* raises the validation error of the schema.
C18_BoxAccessors ==
    [][box'.self # PyNone =>
         /\ OneFlag(box')
         /\ box.self # PyNone => is_ok(box'.self) = is_ok(box.self)
         /\ ErrClauses(box')
         /\ OkErrClauses(box')
         /\ (box'.self.raw_result.kind = "Ok" /\ box'.last.name = "unwrap") =>
               box'.last.out =
                  (IF box'.self.response_schema = PyNone
                   THEN Raise("NoResponseSchemaException")
                   ELSE IF Validates(box') THEN Return(Parsed(box'))
                   ELSE Raise("ValidationError"))]_vars

\* the second accessor called on an Ok box without a response schema was
\* unwrap, and it raised NoResponseSchemaException
C18_Witness ==
    /\ box.self # PyNone
    /\ box.self.raw_result = ResultOk(BoxResponse(200, AliceJson))
    /\ box.self.response_schema = PyNone
    /\ box.calls = 2
    /\ box.last.name = "unwrap"
    /\ box.last.out.raised = "NoResponseSchemaException"

\* the accessors that give a typed view of the response
TypedAccessors ==
    {"unwrap", "unwrap_or", "unwrap_or_else", "expect", "map", "map_or",
     "map_or_else", "map_err", "and_then", "or_else"}

\* the accessors of the raw result
RawAccessors == {"json", "is_ok", "is_err", "unwrap_err", "expect_err"}

\* the errors of applying a response schema: there is none, or the body
\* does not validate
SchemaErrors == {"NoResponseSchemaException", "ValidationError"}

\* C28: the schema of a ResponseBox is applied lazily and only on an Ok
\* result: without a response schema every typed accessor of an Ok box,
\* unwrap_or included, raises NoResponseSchemaException, on Err no typed
\* accessor raises it or validates anything, and json, is_ok, is_err,
\* unwrap_err and expect_err never apply the schema: they raise no error of
\* the schema and give what they give for any other schema of the box, json
\* giving the raw body, of the response or of the error's response.
C28_LazyParsing ==
    (box.self # PyNone /\ box.last.name # "none") =>
        LET n == box.last.name
            out == box.last.out
            ok == box.self.raw_result.kind = "Ok"
        IN /\ (n \in TypedAccessors /\ ok /\ box.self.response_schema = PyNone)
                 => out = Raise("NoResponseSchemaException")
           /\ (n \in TypedAccessors /\ ~ok) => out.raised \notin SchemaErrors
           /\ n \in RawAccessors =>
                 /\ out.raised \notin SchemaErrors
                 /\ \A s \in ResponseSchemas :
                       call_accessor(ResponseBox(box.self.raw_result, s), n) = out
           /\ (n = "json" /\ ok) => out = Return(box.self.raw_result.value.json)
           /\ (n = "json" /\ ~ok) =>
                 out = Return(box.self.raw_result.value.response.json)

\* unwrap_or was called on an Ok box without a response schema and raised
\* instead of returning its default
C28_Witness ==
    /\ box.self # PyNone
    /\ box.self.raw_result = ResultOk(BoxResponse(200, BobJson))
    /\ box.self.response_schema = PyNone
    /\ box.last.name = "unwrap_or"
    /\ box.last.out = Raise("NoResponseSchemaException")

(***************************************************************************)
(* CollectionIterator and CollectionParser (domain/model/params.py).       *)
(***************************************************************************)
\* the json lists of the collection responses: sequences of users
RECURSIVE ItemLists(_)
ItemLists(n) ==
    IF n = 0 THEN {<<>>}
    ELSE LET shorter == ItemLists(n - 1)
         IN shorter \cup {Append(l, j) : l \in {s \in shorter : Len(s) = n - 1},
                                         j \in {AliceJson, BobJson}}

\* a header value made of decimal digits, as the sequence of its digits
Digits == {<<5>>, <<1, 0>>}

\* headers.get("Total-Count") of a response without that header
NoTotalCount == <<>>

\* int(text) for a text of decimal digits
RECURSIVE int(_)
int(text) ==
    IF Len(text) = 0 THEN 0
    ELSE 10 * int(SubSeq(text, 1, Len(text) - 1)) + text[Len(text)]

\* a collection response: its Total-Count header and its json, a list or None
CollectionResponse(total_count, json) ==
    [kind |-> "HTTPResponse", total_count |-> total_count, json |-> json]

NoList == [kind |-> "None", items |-> <<>>]

List(items) == [kind |-> "list", items |-> items]

CollectionResponses ==
    {CollectionResponse(t, j) :
        t \in Digits \cup {NoTotalCount},
        j \in {List(l) : l \in ItemLists(MaxItems)} \cup {NoList}}

\* an item that GetResponse rejects: it has no age
CarolJson == [name |-> "Carol"]

\* the lists of at most n items, valid or not
RECURSIVE MixedLists(_)
MixedLists(n) ==
    IF n = 0 THEN {<<>>}
    ELSE LET shorter == MixedLists(n - 1)
         IN shorter \cup {Append(l, j) : l \in {s \in shorter : Len(s) = n - 1},
                                         j \in {AliceJson, CarolJson}}

\* the collection responses some of whose items GetResponse rejects
MixedResponses ==
    {CollectionResponse(t, List(l)) :
        t \in Digits \cup {NoTotalCount}, l \in MixedLists(MaxItems)}

\* CollectionParser.json: resp.json or []
parser_json(resp) == IF truthy(resp.json) THEN resp.json.items ELSE <<>>

\* CollectionParser.meta
parser_meta(resp) ==
    LET total_count == resp.total_count
    IN [count |-> Len(parser_json(resp)),
        total_count |-> IF total_count = NoTotalCount THEN PyNone
                        ELSE PyInt(int(total_count))]

\* CollectionIterator.__init__ on an Ok result
CollectionIterator(response, response_schema) ==
    [kind |-> "CollectionIterator", pos |-> 0,
     response_schema |-> response_schema, response |-> response,
     json_resp |-> parser_json(response)]

\* CollectionIterator.meta
meta(self) == parser_meta(self.response)

\* an iterator that steps over an item its schema rejects
next_skipping(self) ==
    IF self.pos + 1 \in DOMAIN self.json_resp
    THEN LET resp == self.json_resp[self.pos + 1]
             parsed == IF truthy(self.response_schema)
                       THEN GetResponse(resp) ELSE Return(resp)
         IN [self |-> [self EXCEPT !.pos = @ + 1], out |-> parsed]
    ELSE [self |-> self, out |-> Raise("StopIteration")]

next_stuck(self) ==
    IF self.pos + 1 \in DOMAIN self.json_resp
    THEN LET resp == self.json_resp[self.pos + 1]
             parsed == IF truthy(self.response_schema)
                       THEN GetResponse(resp) ELSE Return(resp)
         IN [self |-> self, out |-> parsed]
    ELSE [self |-> self, out |-> Raise("StopIteration")]

\* CollectionIterator.__next__: the iterator after the call and how it ends
next(self) ==
    IF self.pos + 1 \in DOMAIN self.json_resp
    THEN LET resp == self.json_resp[self.pos + 1]
             parsed == IF truthy(self.response_schema)
                       THEN GetResponse(resp) ELSE Return(resp)
         IN IF parsed.raised # ""
            THEN [self |-> self, out |-> parsed]
            ELSE [self |-> [self EXCEPT !.pos = @ + 1], out |-> parsed]
    ELSE [self |-> self, out |-> Raise("StopIteration")]

\* no iterator built yet
NoIterator == [self |-> PyNone, raised |-> "", yielded |-> <<>>, stops |-> 0]

\* CollectionIterator(response, response_schema, CollectionParser)
IteratorInit ==
    /\ iter = NoIterator
    /\ \/ \E response \in CollectionResponses \cup MixedResponses,
               response_schema \in ResponseSchemas :
             iter' = [iter EXCEPT
                         !.self = CollectionIterator(response, response_schema)]
       \/ \E error \in {BoxError(BoxResponse(500, ErrorJson))} :
             iter' = [iter EXCEPT !.raised = error.kind]

\* next(iterator)
IteratorNext ==
    /\ iter.self # PyNone
    /\ iter.stops < MaxStops
    /\ Len(iter.yielded) <= MaxItems
    /\ LET call == next(iter.self)
       IN iter' = [iter EXCEPT
                      !.self = call.self,
                      !.yielded = IF call.out.raised = ""
                                  THEN Append(@, call.out.value) ELSE @,
                      !.stops = IF call.out.raised = "StopIteration"
                                THEN @ + 1 ELSE @,
                      !.raised = call.out.raised]

\* the items of the response the iterator was built from
Items(it) ==
    IF it.self.response.json.kind = "list"
    THEN it.self.response.json.items ELSE <<>>

\* an item parsed with the response schema of the iterator, if it has one
ParsedItem(it, i) ==
    IF it.self.response_schema = PyNone THEN Items(it)[i]
    ELSE [kind |-> "GetResponse",
          name |-> Items(it)[i].name, age |-> Items(it)[i].age]

\* the number a Total-Count header stands for
HeaderNumber(text) ==
    CASE text = <<5>> -> PyInt(5)
      [] text = <<1, 0>> -> PyInt(10)
      [] text = NoTotalCount -> PyNone

\* what holds of an iterator and of the values it has yielded so far
IterationInvariant ==
    iter.self # PyNone =>
        LET n == Len(Items(iter))
        IN /\ Len(iter.yielded) <= n
           /\ Len(iter.yielded) = iter.self.pos
           /\ \A i \in DOMAIN iter.yielded : iter.yielded[i] = ParsedItem(iter, i)
           /\ iter.stops > 0 =>
                 /\ Len(iter.yielded) = n
                 /\ iter.raised = "StopIteration"
           /\ iter.stops = 0 => iter.raised = ""
           /\ meta(iter.self) =
                 [count |-> n,
                  total_count |-> HeaderNumber(iter.self.response.total_count)]

\* the iterator has returned every item and then raised StopIteration
Exhausted == iter.stops > 0 /\ Len(iter.yielded) = Len(Items(iter))

\* C19 as stated: iterating an iterator built from a successful response with
\* n items, whatever the items, terminates: it yields exactly n values, the
\* i-th being item i of the response parsed with the response schema, then
\* raises StopIteration and keeps raising it on every later call; meta.count is
\* n and meta.total_count is the number in the Total-Count header before,
\* during and after the iteration.
C19_IterationAlways ==
    /\ []IterationInvariant
    /\ (iter.self # PyNone) ~> Exhausted

\* the response schema of the iterator accepts item i: there is no schema, or
\* the item has the fields GetResponse requires
Accepted(it, i) ==
    \/ it.self.response_schema = PyNone
    \/ {"name", "age"} \subseteq DOMAIN Items(it)[i]

\* the number of items before the first one the schema rejects, all of them
\* when it rejects none
Reach(it) ==
    LET n == Len(Items(it))
    IN CHOOSE m \in 0..n :
          /\ \A i \in 1..m : Accepted(it, i)
          /\ m < n => ~Accepted(it, m + 1)

\* every later call raises the validation error of the first rejected item
Stuck ==
    /\ iter.raised = "ValidationError"
    /\ iter.stops = 0
    /\ Len(iter.yielded) = Reach(iter)

\* what holds of an iterator and of the values it has yielded so far, when
\* the schema may reject items
IterationInvariantAccepted ==
    iter.self # PyNone =>
        LET n == Len(Items(iter))
            m == Reach(iter)
        IN /\ Len(iter.yielded) <= m
           /\ Len(iter.yielded) = iter.self.pos
           /\ \A i \in DOMAIN iter.yielded : iter.yielded[i] = ParsedItem(iter, i)
           /\ iter.stops > 0 =>
                 /\ m = n
                 /\ Len(iter.yielded) = n
                 /\ iter.raised = "StopIteration"
           /\ (iter.stops = 0 /\ iter.raised # "") => (m < n /\ Stuck)
           /\ meta(iter.self) =
                 [count |-> n,
                  total_count |-> HeaderNumber(iter.self.response.total_count)]

\* C19, amended: iterating an iterator built from a successful response with
\* n items terminates when the response schema accepts every item: it yields
\* exactly n values, the i-th being item i of the response parsed with the
\* response schema, then raises StopIteration and keeps raising it on every
\* later call; when the schema rejects an item, the iteration yields the items
\* before the first rejected one and every later call raises the validation
\* error of that item, never StopIteration; meta.count is n and
\* meta.total_count is the number in the Total-Count header before, during
\* and after the iteration in both cases.
C19_Iteration ==
    /\ []IterationInvariantAccepted
    /\ (iter.self # PyNone /\ Reach(iter) = Len(Items(iter))) ~> Exhausted
    /\ (iter.self # PyNone /\ Reach(iter) < Len(Items(iter))) ~> []Stuck

\* an iterator over a response with Total-Count: 10 and two users yielded
\* both, parsed, and then raised StopIteration twice
C19_Witness ==
    /\ iter.self # PyNone
    /\ iter.self.response =
          CollectionResponse(<<1, 0>>, List(<<AliceJson, BobJson>>))
    /\ iter.self.response_schema = Schema("GetResponse")
    /\ iter.yielded = <<[kind |-> "GetResponse", name |-> "Alice", age |-> 24],
                        [kind |-> "GetResponse", name |-> "Bob", age |-> 42]>>
    /\ iter.stops = 2
    /\ meta(iter.self) = [count |-> 2, total_count |-> PyInt(10)]

\* CollectionIterator(response, response_schema, CollectionParser) on a
\* response some of whose items the schema rejects
IteratorInitMixed ==
    /\ iter = NoIterator
    /\ \E l \in MixedLists(MaxItems), response_schema \in ResponseSchemas :
          iter' = [iter EXCEPT
                      !.self = CollectionIterator(
                                  CollectionResponse(NoTotalCount, List(l)),
                                  response_schema)]

\* C29: the position of a CollectionIterator is the number of values it has
\* returned, each call that returns advancing it by one and no other call
\* moving it: the values returned are the items before the position, in
\* order, none skipped; after a call in which the response schema rejected
\* the item at the position, the position still designates that item, so
\* that the next call tries it again; the position never exceeds the number
\* of items.
C29_Position ==
    iter.self # PyNone =>
        LET p == iter.self.pos
            n == Len(Items(iter))
        IN /\ p = Len(iter.yielded)
           /\ p <= n
           /\ \A i \in 1..p : iter.yielded[i] = ParsedItem(iter, i)
           /\ iter.raised = "ValidationError" =>
                 /\ p < n
                 /\ iter.self.response_schema # PyNone
                 /\ ~({"name", "age"} \subseteq DOMAIN Items(iter)[p + 1])
                 /\ iter.stops = 0
           /\ iter.raised = "StopIteration" => (p = n /\ iter.stops > 0)
           /\ iter.raised \in {"", "ValidationError", "StopIteration"}

\* the first item was returned and the second, which has no age, was
\* rejected: the position is 1 and a third item is still to come
C29_Witness ==
    /\ iter.self # PyNone
    /\ iter.self.response_schema # PyNone
    /\ Items(iter) = <<AliceJson, CarolJson, AliceJson>>
    /\ iter.raised = "ValidationError"
    /\ iter.self.pos = 1
    /\ Len(iter.yielded) = 1

(***************************************************************************)
(* Request body serializers (blacksmith/service/request_serializer.py).    *)
(***************************************************************************)
\* a content type: its media type and what follows it, "; charset=utf-8"
ContentType(media, rest) == [kind |-> "str", media |-> media, rest |-> rest]

\* the content types of the requests; PyNone when the header is not set
ContentTypes ==
    {ContentType("application/json", ""),
     ContentType("application/json", "; charset=utf-8"),
     ContentType("application/x-www-form-urlencoded", ""),
     ContentType("application/x-www-form-urlencoded", "; charset=utf-8"),
     ContentType("text/xml", ""),
     ContentType("text/plain", "")}

\* content_type.startswith(prefix), for a prefix that is a media type
startswith(content_type, prefix) == content_type.media = prefix

\* content_type == text, for a text that is a media type
equals(content_type, text) ==
    content_type.media = text /\ content_type.rest = ""

\* the serializers given by register_request_body_serializer: two for json
\* and one for xml
UserSerializers == {"MyJson", "OtherJson", "MyXml"}

\* serializer.accept(content_type)
accept(serializer, content_type) ==
    CASE serializer = "JsonRequestSerializer" ->
             startswith(content_type, "application/json")
      [] serializer = "UrlencodedRequestSerializer" ->
             equals(content_type, "application/x-www-form-urlencoded")
      [] serializer \in {"MyJson", "OtherJson"} ->
             startswith(content_type, "application/json")
      [] serializer = "MyXml" -> equals(content_type, "text/xml")

\* _SERIALIZERS as the module defines it
BuiltinSerializers == <<"JsonRequestSerializer", "UrlencodedRequestSerializer">>

register_at_end(serializers, serializer) == Append(serializers, serializer)

\* register_request_body_serializer: _SERIALIZERS.insert(0, serializer)
register_request_body_serializer(serializers, serializer) ==
    <<serializer>> \o serializers

\* list.remove(x): the list without the first element equal to x
RECURSIVE remove(_, _)
remove(list, x) ==
    IF list = <<>> THEN <<>>
    ELSE IF Head(list) = x THEN Tail(list)
    ELSE <<Head(list)>> \o remove(Tail(list), x)

\* unregister_request_body_serializer: _SERIALIZERS.remove(serializer), which
\* raises ValueError when the serializer is not in the list
unregister_request_body_serializer(serializers, serializer) ==
    IF \E i \in DOMAIN serializers : serializers[i] = serializer
    THEN [raised |-> "", serializers |-> remove(serializers, serializer)]
    ELSE [raised |-> "ValueError", serializers |-> serializers]

\* the first serializer of the list, from position i, that accepts
RECURSIVE first_accepting(_, _, _)
first_accepting(serializers, content_type, i) ==
    IF i > Len(serializers) THEN "none"
    ELSE IF accept(serializers[i], content_type) THEN serializers[i]
    ELSE first_accepting(serializers, content_type, i + 1)

\* serialize_body(req, body, content_type): the serializer that serializes
\* the body, "" when the result is the empty string
serialize_body(serializers, body, content_type) ==
    IF body = {} /\ ~truthy(content_type)
    THEN [raised |-> "", by |-> ""]
    ELSE LET ct == IF truthy(content_type) THEN content_type
                   ELSE ContentType("application/json", "")
             found == first_accepting(serializers, ct, 1)
         IN IF found = "none"
            THEN [raised |-> "UnregisteredContentTypeException", by |-> ""]
            ELSE [raised |-> "", by |-> found]

\* the body fields of the request models: none or one
BodyFields == {{}, {"name"}}

NoSerializerCall ==
    [op |-> "none", body |-> {}, content_type |-> PyNone,
     out |-> [raised |-> "", by |-> ""]]

\* the module as imported: the two built-in serializers, nothing called
NoSerializers ==
    [list |-> BuiltinSerializers, log |-> <<>>, hist |-> <<BuiltinSerializers>>,
     call |-> NoSerializerCall]

\* register_request_body_serializer(serializer)
RegisterSerializer ==
    /\ Len(ser.log) < MaxSerializerCalls
    /\ \E serializer \in UserSerializers :
          LET list == register_request_body_serializer(ser.list, serializer)
          IN ser' = [list |-> list,
                     log |-> Append(ser.log, [op |-> "register",
                                              serializer |-> serializer,
                                              raised |-> ""]),
                     hist |-> Append(ser.hist, list),
                     call |-> NoSerializerCall]

\* unregister_request_body_serializer(serializer)
UnregisterSerializer ==
    /\ Len(ser.log) < MaxSerializerCalls
    /\ \E serializer \in UserSerializers :
          LET out == unregister_request_body_serializer(ser.list, serializer)
          IN ser' = [list |-> out.serializers,
                     log |-> Append(ser.log, [op |-> "unregister",
                                              serializer |-> serializer,
                                              raised |-> out.raised]),
                     hist |-> Append(ser.hist, out.serializers),
                     call |-> NoSerializerCall]

\* serialize_body(req, body, content_type)
SerializeBody ==
    /\ ser.call = NoSerializerCall
    /\ \E body \in BodyFields, content_type \in ContentTypes \cup {PyNone} :
          ser' = [ser EXCEPT !.call =
                     [op |-> "serialize_body", body |-> body,
                      content_type |-> content_type,
                      out |-> serialize_body(ser.list, body, content_type)]]

\* the calls k of the log in a..b that did op on the serializer and succeeded
Calls(log, op, serializer, a, b) ==
    {k \in a..b : /\ log[k].op = op
                  /\ log[k].serializer = serializer
                  /\ log[k].raised = ""}

\* the registration made by call i of the log is still registered: at no
\* later point were there more unregistrations of its serializer after it
\* than registrations of that serializer after it
StillRegistered(log, i) ==
    /\ log[i].op = "register"
    /\ \A j \in (i + 1)..Len(log) :
          Cardinality(Calls(log, "unregister", log[i].serializer, i + 1, j))
             <= Cardinality(Calls(log, "register", log[i].serializer, i + 1, j))

\* the serializer the claim names for a content type after the calls of the
\* log: the most recently registered one still registered that accepts it,
\* otherwise the built-in that accepts it, "none" when there is none
NamedSerializer(log, content_type) ==
    LET live == {i \in DOMAIN log :
                    /\ StillRegistered(log, i)
                    /\ accept(log[i].serializer, content_type)}
    IN IF live # {}
       THEN log[CHOOSE i \in live : \A k \in live : k <= i].serializer
       ELSE IF content_type.media = "application/json"
       THEN "JsonRequestSerializer"
       ELSE IF content_type = ContentType("application/x-www-form-urlencoded", "")
       THEN "UrlencodedRequestSerializer"
       ELSE "none"

\* C21: after any sequence of register and unregister calls, serialize_body
\* uses the most recently registered serializer still registered that
\* accepts the content type, so that a user serializer shadows a built-in,
\* and the built-in that accepts it when there is no such user serializer;
\* when no serializer accepts it raises the unregistered-content-type
\* error; an unregister that directly follows the register of the same
\* serializer leaves the list as it was before that register.
C21_SerializerOrder ==
    /\ (ser.call.op = "serialize_body"
          /\ (ser.call.body # {} \/ ser.call.content_type # PyNone)) =>
          LET ct == IF ser.call.content_type = PyNone
                    THEN ContentType("application/json", "")
                    ELSE ser.call.content_type
              named == NamedSerializer(ser.log, ct)
          IN IF named = "none"
             THEN ser.call.out.raised = "UnregisteredContentTypeException"
             ELSE ser.call.out = [raised |-> "", by |-> named]
    /\ \A k \in 1..(Len(ser.log) - 1) :
          (/\ ser.log[k].op = "register"
           /\ ser.log[k + 1].op = "unregister"
           /\ ser.log[k + 1].serializer = ser.log[k].serializer)
          => /\ ser.log[k + 1].raised = ""
             /\ ser.hist[k + 2] = ser.hist[k]

\* MyJson was registered, then OtherJson, then MyJson was unregistered: a
\* json body with a charset is serialized by OtherJson
C21_Witness ==
    /\ Len(ser.log) = 3
    /\ ser.log[1] = [op |-> "register", serializer |-> "MyJson", raised |-> ""]
    /\ ser.log[2] = [op |-> "register", serializer |-> "OtherJson", raised |-> ""]
    /\ ser.log[3] = [op |-> "unregister", serializer |-> "MyJson", raised |-> ""]
    /\ ser.call.op = "serialize_body"
    /\ ser.call.content_type = ContentType("application/json", "; charset=utf-8")
    /\ ser.call.out = [raised |-> "", by |-> "OtherJson"]

(***************************************************************************)
(* Serialization of a request model (request_serializer.py).               *)
(***************************************************************************)
\* a str value
PyStr(text) == [kind |-> "str", text |-> text]

\* SecretStr(text): a value that hides its text until get_secret_value()
SecretStr(text) == [kind |-> "SecretStr", secret |-> text]

\* datetime(year, month, day), at midnight
datetime(year, month, day) ==
    [kind |-> "datetime", year |-> year, month |-> month, day |-> day,
     hour |-> 0, minute |-> 0, second |-> 0]

\* a number written with two digits
Pad2(n) == IF n < 10 THEN "0" \o ToString(n) ELSE ToString(n)

\* datetime.isoformat(), for a year of four digits
isoformat(d) ==
    ToString(d.year) \o "-" \o Pad2(d.month) \o "-" \o Pad2(d.day) \o "T"
    \o Pad2(d.hour) \o ":" \o Pad2(d.minute) \o ":" \o Pad2(d.second)

\* a field of a request model: its name, its alias, its location, its
\* annotation and its default; Required when it has no default
Required == [kind |-> "required"]

Annotation(type, optional) == [type |-> type, optional |-> optional]

Field(name, alias, location, annotation, default) ==
    [name |-> name, alias |-> alias, location |-> location,
     annotation |-> annotation, default |-> default]

\* class Dummy(Request) of test_param_to_req: three header fields, a path
\* field, two query fields and three body fields, in the order of the class
DummyFieldOrder ==
    <<Field("x_message_id", "X-Message-Id", "headers",
            Annotation("int", FALSE), PyInt(123)),
      Field("x_token", "X-Token", "headers",
            Annotation("SecretStr", FALSE), Required),
      Field("x_sub_id", "X-Sub-Id", "headers",
            Annotation("int", TRUE), PyNone),
      Field("name", "name", "path", Annotation("str", FALSE), Required),
      Field("country", "country", "querystring",
            Annotation("str", FALSE), Required),
      Field("state", "state", "querystring", Annotation("str", TRUE), PyNone),
      Field("age", "age", "body", Annotation("int", FALSE), Required),
      Field("birthdate", "birthdate", "body",
            Annotation("datetime", FALSE), Required),
      Field("password", "password", "body",
            Annotation("SecretStr", FALSE), Required)>>

DummyFields == {DummyFieldOrder[i] : i \in DOMAIN DummyFieldOrder}

\* a keyword argument that is not given
Unset == [kind |-> "unset"]

\* the values a keyword argument of Dummy(...) can give to a field
GivenValues(field) ==
    CASE field.name = "x_message_id" -> {PyInt(7), PyNone}
      [] field.name = "x_token" -> {PyStr("plokiploki")}
      [] field.name = "x_sub_id" -> {PyInt(5), PyNone}
      [] field.name = "name" -> {PyStr("Jane")}
      [] field.name = "country" -> {PyStr("FR")}
      [] field.name = "state" -> {PyStr("NY"), PyNone}
      [] field.name = "age" -> {PyInt(23)}
      [] field.name = "birthdate" -> {datetime(1956, 12, 13)}
      [] field.name = "password" -> {SecretStr("myownsecret")}

FieldByName(name) == CHOOSE f \in DummyFields : f.name = name

FieldByAlias(alias) == CHOOSE f \in DummyFields : f.alias = alias

FieldNames == {f.name : f \in DummyFields}

\* the keyword arguments of the calls Dummy(...): every field is left out or
\* given one of its values, under its alias
DummyCalls ==
    {[a \in {f.alias : f \in {g \in DummyFields : choice[g.name] # Unset}} |->
         choice[FieldByAlias(a).name]] :
        choice \in [x_message_id : GivenValues(FieldByName("x_message_id")) \cup {Unset},
                    x_token : GivenValues(FieldByName("x_token")) \cup {Unset},
                    x_sub_id : GivenValues(FieldByName("x_sub_id")) \cup {Unset},
                    name : GivenValues(FieldByName("name")) \cup {Unset},
                    country : GivenValues(FieldByName("country")) \cup {Unset},
                    state : GivenValues(FieldByName("state")) \cup {Unset},
                    age : GivenValues(FieldByName("age")) \cup {Unset},
                    birthdate : GivenValues(FieldByName("birthdate")) \cup {Unset},
                    password : GivenValues(FieldByName("password")) \cup {Unset}]}

\* the validation of the value given to a field: None is valid for an
\* Optional annotation only, a str given to a SecretStr field becomes a
\* SecretStr, and a value of the annotated type is kept
validate(field, v) ==
    IF v = PyNone
    THEN IF field.annotation.optional THEN Return(PyNone)
         ELSE Raise("ValidationError")
    ELSE IF field.annotation.type = "SecretStr" /\ v.kind = "str"
    THEN Return(SecretStr(v.text))
    ELSE IF v.kind = field.annotation.type THEN Return(v)
    ELSE Raise("ValidationError")

\* Dummy(**given): the fields set by the call and the value of every field,
\* or the ValidationError of a required field that is missing or of a value
\* that is not valid
Dummy(given) ==
    LET missing == {f \in DummyFields :
                       f.alias \notin DOMAIN given /\ f.default = Required}
        invalid == {f \in DummyFields :
                       /\ f.alias \in DOMAIN given
                       /\ validate(f, given[f.alias]).raised # ""}
    IN IF missing # {} \/ invalid # {}
       THEN Raise("ValidationError")
       ELSE Return([fields_set |-> {FieldByAlias(a).name : a \in DOMAIN given},
                    values |-> [n \in FieldNames |->
                                   IF FieldByName(n).alias \in DOMAIN given
                                   THEN validate(FieldByName(n),
                                                 given[FieldByName(n).alias]).value
                                   ELSE FieldByName(n).default]])

\* req.dict(include=part, by_alias=True, exclude_none=..., exclude_unset=...)
dict(req, part, exclude_none, exclude_unset) ==
    LET kept == {n \in part :
                    /\ ~(exclude_none /\ req.values[n] = PyNone)
                    /\ ~(exclude_unset /\ n \notin req.fields_set)}
    IN [a \in {FieldByName(n).alias : n \in kept} |->
           req.values[FieldByAlias(a).name]]

\* get_value: the text of a secret, any other value as it is
get_value(v) == IF v.kind = "SecretStr" THEN PyStr(v.secret) ELSE v

\* {**a, **b}
merge(a, b) ==
    [k \in DOMAIN a \cup DOMAIN b |-> IF k \in DOMAIN b THEN b[k] ELSE a[k]]

\* serialize_part
serialize_part(req, part) ==
    LET first == dict(req, part, TRUE, FALSE)
        second == dict(req, part, FALSE, TRUE)
    IN merge([k \in {k \in DOMAIN first : first[k] # PyNone} |->
                 get_value(first[k])],
             [k \in DOMAIN second |-> get_value(second[k])])

\* str(val)
str(val) ==
    CASE val.kind = "None" -> PyStr("None")
      [] val.kind = "int" -> PyStr(ToString(val.v))
      [] val.kind = "str" -> val

\* JSONEncoder: a datetime is written as its isoformat string
json_value(v) ==
    CASE v.kind = "None" -> "null"
      [] v.kind = "int" -> ToString(v.v)
      [] v.kind = "str" -> "\"" \o v.text \o "\""
      [] v.kind = "datetime" -> "\"" \o isoformat(v) \o "\""

\* the keys of a part in the order of the dict: the fields of the first
\* dict in the order of the class, then those only the second dict has
keys_in_order(req, part) ==
    LET first == dict(req, part, TRUE, FALSE)
        second == dict(req, part, FALSE, TRUE)
        aliases == [i \in DOMAIN DummyFieldOrder |-> DummyFieldOrder[i].alias]
    IN SelectSeq(aliases, LAMBDA a : a \in DOMAIN first /\ first[a] # PyNone)
       \o SelectSeq(aliases, LAMBDA a : /\ a \in DOMAIN second
                                        /\ ~(a \in DOMAIN first /\ first[a] # PyNone))

\* the members of a JSON object, separated by ", "
RECURSIVE json_members(_, _)
json_members(keys, d) ==
    IF keys = <<>> THEN ""
    ELSE "\"" \o Head(keys) \o "\": " \o json_value(d[Head(keys)])
         \o (IF Tail(keys) = <<>> THEN "" ELSE ", ")
         \o json_members(Tail(keys), d)

\* JsonRequestSerializer.serialize: json.dumps(body, cls=JSONEncoder)
serialize(serializer, keys, body) ==
    CASE serializer = "JsonRequestSerializer" ->
             PyStr("{" \o json_members(keys, body) \o "}")

\* fields_by_loc[location]
fields_by_loc(location) == {f.name : f \in {g \in DummyFields : g.location = location}}

\* serialize_request: the components of the HTTPRequest, or the exception
\* of serialize_body
serialize_request(serializers, request_model) ==
    LET headers == serialize_part(request_model, fields_by_loc("headers"))
        found == serialize_body(serializers, fields_by_loc("body"),
                                IF "Content-Type" \in DOMAIN headers
                                THEN headers["Content-Type"] ELSE PyNone)
    IN IF found.raised # "" THEN Raise(found.raised)
       ELSE Return(
           [headers |-> [key \in DOMAIN headers |-> str(headers[key])],
            path |-> serialize_part(request_model, fields_by_loc("path")),
            querystring |-> serialize_part(request_model,
                                           fields_by_loc("querystring")),
            body |-> IF found.by = "" THEN PyStr("")
                     ELSE serialize(found.by,
                                    keys_in_order(request_model,
                                                  fields_by_loc("body")),
                                    serialize_part(request_model,
                                                   fields_by_loc("body")))])

\* no request model built yet
NoRequestModel == [given |-> PyNone, model |-> PyNone, raised |-> "", out |-> PyNone]

\* Dummy(...): an instance of the request model is built, or the call raises
BuildRequestModel ==
    /\ sreq.given = PyNone
    /\ \E given \in DummyCalls :
          LET call == Dummy(given)
          IN sreq' = [sreq EXCEPT !.given = given,
                                  !.model = call.value,
                                  !.raised = call.raised]

\* dummy.to_http_request(method, url_pattern), which calls serialize_request
SerializeRequest ==
    /\ sreq.model # PyNone
    /\ sreq.out = PyNone
    /\ LET call == serialize_request(ser.list, sreq.model)
       IN sreq' = [sreq EXCEPT !.out = call.value, !.raised = call.raised]

\* a field explicitly set to None is kept as an empty value: None in the
\* query mapping, the empty string among the header strings
EmptyValue(field) ==
    IF field.location = "headers" THEN PyStr("") ELSE PyNone

\* C22: when a request is serialized, a query or header field explicitly set
\* to None is kept in its HTTP component as an empty value, an unset field
\* whose default is None is omitted, and a field with a non-None value,
\* given or default, is emitted with that value (as a string in the headers).
C22_NoneIsEmpty ==
    sreq.out # PyNone =>
        \A f \in {g \in DummyFields : g.location \in {"headers", "querystring"}} :
            LET v == sreq.model.values[f.name]
                given == f.name \in sreq.model.fields_set
                component == sreq.out[f.location]
            IN /\ (given /\ v = PyNone) =>
                     /\ f.alias \in DOMAIN component
                     /\ component[f.alias] = EmptyValue(f)
               /\ (~given /\ f.default = PyNone) =>
                     f.alias \notin DOMAIN component
               /\ v # PyNone =>
                     /\ f.alias \in DOMAIN component
                     /\ component[f.alias] =
                           (IF f.location = "headers" THEN str(get_value(v))
                            ELSE get_value(v))

(***************************************************************************)
(* The Prometheus hook of the circuit breaker (circuit_breaker.py).        *)
(***************************************************************************)
\* at most MaxEvents events are delivered to the hook
MaxEvents == 3

\* GaugeStateValue
CLOSED == 0
HALF_OPEN == 1
OPEN == 2

\* the types of the events the circuit breaker factory gives its listeners
EventTypes == {"circuit_breaker_created", "state_changed", "failed", "recovered"}

\* the states a state_changed event carries
PayloadStates == {"closed", "half-opened", "opened"}

\* the payload of an event; the hook reads its state only
Payload(state) == [state |-> state]

\* the payload of the events that carry no state
NoPayload == Payload("")

\* one call of the listener: listener(circuit_name, evt_type, payload)
HookEvent(circuit_name, evt_type, payload) ==
    [circuit_name |-> circuit_name, evt_type |-> evt_type, payload |-> payload]

Events ==
    {HookEvent(n, "state_changed", Payload(s)) : n \in ClientNames, s \in PayloadStates}
    \cup {HookEvent(n, t, NoPayload) : n \in ClientNames,
                                   t \in EventTypes \ {"state_changed"}}

\* PrometheusMetrics(): the counter and the gauge of the circuit breaker, by
\* their client_name label; a gauge that was never set has no sample
PrometheusMetrics ==
    [blacksmith_circuit_breaker_error |-> [n \in ClientNames |-> 0],
     blacksmith_circuit_breaker_state |-> [n \in ClientNames |-> PyNone]]

\* a hook that counts every event that is not a change of state
PrometheusHook_counting_all(prometheus_metrics, circuit_name, evt_type, payload) ==
    IF evt_type = "state_changed"
    THEN LET state == CASE payload.state = "closed" -> CLOSED
                        [] payload.state = "half-opened" -> HALF_OPEN
                        [] payload.state = "opened" -> OPEN
         IN [prometheus_metrics EXCEPT
                !.blacksmith_circuit_breaker_state[circuit_name] = PyInt(state)]
    ELSE [prometheus_metrics EXCEPT
             !.blacksmith_circuit_breaker_error[circuit_name] = @ + 1]

\* PrometheusHook.__call__
PrometheusHook(prometheus_metrics, circuit_name, evt_type, payload) ==
    IF evt_type = "state_changed"
    THEN LET state == CASE payload.state = "closed" -> CLOSED
                        [] payload.state = "half-opened" -> HALF_OPEN
                        [] payload.state = "opened" -> OPEN
         IN [prometheus_metrics EXCEPT
                !.blacksmith_circuit_breaker_state[circuit_name] = PyInt(state)]
    ELSE IF evt_type = "failed"
    THEN [prometheus_metrics EXCEPT
             !.blacksmith_circuit_breaker_error[circuit_name] = @ + 1]
    ELSE prometheus_metrics

\* the metrics before any event and the events delivered so far (history)
NoEvents == [metrics |-> PrometheusMetrics, log |-> <<>>]

\* the circuit breaker factory calls the hook with one event
DeliverEvent ==
    /\ Len(prom.log) < MaxEvents
    /\ \E e \in Events :
          prom' = [metrics |-> PrometheusHook(prom.metrics, e.circuit_name,
                                              e.evt_type, e.payload),
                   log |-> Append(prom.log, e)]

\* the state carried by the most recent state_changed event of a name, ""
\* when there is none
RECURSIVE LastStateChanged(_, _)
LastStateChanged(log, name) ==
    IF log = <<>> THEN ""
    ELSE LET e == log[Len(log)]
         IN IF e.circuit_name = name /\ e.evt_type = "state_changed"
            THEN e.payload.state
            ELSE LastStateChanged(SubSeq(log, 1, Len(log) - 1), name)

\* the number of failed events of a name
FailedEvents(log, name) ==
    Cardinality({i \in DOMAIN log :
                    log[i].circuit_name = name /\ log[i].evt_type = "failed"})

\* the sample of the gauge for a state
GaugeSample(state) ==
    CASE state = "closed" -> PyInt(0)
      [] state = "half-opened" -> PyInt(1)
      [] state = "opened" -> PyInt(2)
      [] state = "" -> PyNone

\* C23: after any sequence of events delivered to the Prometheus hook, for
\* every circuit name the state gauge is 0, 1 or 2 according to the state
\* (closed, half-opened, opened) of the most recent state_changed event of
\* that name and has no sample before the first one, and the error counter
\* is the number of failed events of that name; both being determined by the
\* events of the name and of these two types, events of another name or of
\* another type change neither.
C23_PrometheusHook ==
    \A name \in ClientNames :
        /\ prom.metrics.blacksmith_circuit_breaker_state[name]
              = GaugeSample(LastStateChanged(prom.log, name))
        /\ prom.metrics.blacksmith_circuit_breaker_error[name]
              = FailedEvents(prom.log, name)

\* the circuit "foo" opened and the circuit "dummy" failed once, and the last
\* event delivered is of a type the hook does not observe
C23_Witness ==
    /\ Len(prom.log) >= 3
    /\ prom.log[Len(prom.log)].evt_type = "recovered"
    /\ \E i \in DOMAIN prom.log : prom.log[i].circuit_name = "foo"
    /\ prom.metrics.blacksmith_circuit_breaker_state["foo"] = PyInt(2)
    /\ prom.metrics.blacksmith_circuit_breaker_error["dummy"] = 1

(***************************************************************************)
(* Cancellation of a call awaiting next in the circuit breaker middleware  *)
(* (circuit_breaker.py).                                                   *)
(***************************************************************************)
\* asyncio.CancelledError, raised at the await of next when the task of the
\* caller is cancelled
CancelledError == [kind |-> "CancelledError", status_code |-> 0]

\* handle, when the task is cancelled while it awaits next: the exception is
\* raised inside the with block, which is left with it
handle_cancel(t) ==
    /\ pc[t] = "in_next"
    /\ LET key == breaker_key(arg[t])
           ctx == breakers[key]
       IN breakers' = [breakers EXCEPT ![key] = handle_exception(ctx, CancelledError)]
    /\ pc' = [pc EXCEPT ![t] = "idle"]
    /\ arg' = [arg EXCEPT ![t] = "dummy"]
    /\ event' = Event("cancel", t, arg[t], CancelledError)
    /\ UNCHANGED <<now, threshold, ttl, streak, cacheVars, keysVars, laterVars>>

\* handle, when the task is cancelled before it has entered the breaker it
\* acquired: the with block was not entered and nothing is left
handle_cancel_acquired(t) ==
    /\ pc[t] = "acquired"
    /\ pc' = [pc EXCEPT ![t] = "idle"]
    /\ arg' = [arg EXCEPT ![t] = "dummy"]
    /\ event' = Event("cancel_acquired", t, arg[t], CancelledError)
    /\ UNCHANGED breakers
    /\ UNCHANGED <<now, threshold, ttl, streak, cacheVars, keysVars, laterVars>>

\* the task of a caller awaiting next is cancelled
Cancel == \E t \in Callers : handle_cancel(t)

\* the task of a caller that has not entered its breaker yet is cancelled
CancelAcquired == \E t \in Callers : handle_cancel_acquired(t)

\* the step taken is the cancellation of a call for c
CancelStep(c) == event'.op = "cancel" /\ event'.client = c /\ event' # event

\* C24: when the task of the caller is cancelled while its call awaits next
\* inside the middleware, the call unwinds leaving the shared state as it
\* was: no cache entry is written, and the breaker of the client records no
\* failure and does not change state.
C24_CancelLeavesState ==
    [][\A c \in ClientNames :
          CancelStep(c) => /\ cache' = cache
                           /\ breakers'[c] = breakers[c]]_vars

(***************************************************************************)
(* Clients created through service discovery and their resources           *)
(* (client.py: ClientFactory.__call__ and Client.__getattr__).             *)
(***************************************************************************)
\* the factory is called at most MaxFactoryCalls times
MaxFactoryCalls == 2

\* at most MaxRouteCalls verb methods are called
MaxRouteCalls == 2

\* the attributes read on a client; only "dummies" is a registered resource
ResourceNames == {"dummies", "daemon"}

\* ClientFactory(sd, auth=HTTPAuthorization("Bearer fa"), transport=...)
TheFactory ==
    [kind |-> "ClientFactory", transport |-> "FakeTransport",
     auth |-> HTTPAuthorization("Bearer fa"),
     timeout |-> build_timeout(HTTPTimeout(<<>>))]

\* RouteProxy.__init__, as Client.__getattr__ calls it
BoundRouteProxy(client_name, name, endpoint, routes, transport, auth, timeout) ==
    [client_name |-> client_name, name |-> name, endpoint |-> endpoint,
     routes |-> routes, transport |-> transport, auth |-> auth,
     timeout |-> timeout]

\* a client that gives a proxy without routes for an unknown attribute
getattr_lenient(self, name) ==
    [raised |-> "", exc_args |-> <<>>,
     proxy |-> BoundRouteProxy(self.name, name, self.endpoint,
                               IF name \in DOMAIN self.resources
                               THEN self.resources[name]
                               ELSE [resource |-> PyNone, collection |-> PyNone],
                               self.transport, self.auth, self.timeout)]

\* Client.__getattr__
getattr(self, name) ==
    IF name \in DOMAIN self.resources
    THEN [raised |-> "", exc_args |-> <<>>,
          proxy |-> BoundRouteProxy(self.name, name, self.endpoint,
                                    self.resources[name], self.transport,
                                    self.auth, self.timeout)]
    ELSE [raised |-> "UnregisteredResourceException",
          exc_args |-> <<name, self.name>>, proxy |-> PyNone]

\* the last operation and what it gave (history)
Operation(op, a, raised, exc_args, answer, returned, sent) ==
    [op |-> op, arg |-> a, raised |-> raised, exc_args |-> exc_args,
     sd |-> answer, returned |-> returned, sent |-> sent]

NoOperation == Operation("none", "", "", <<>>, NoAnswer, PyNone, NoSent)

\* no client yet, no call of service discovery, no call of the transport,
\* no call awaiting service discovery or the transport
NoDiscovery ==
    [client |-> PyNone, held |-> PyNone, of |-> PyNone, sd_calls |-> 0,
     transport_calls |-> 0, factory_calls |-> 0, route_calls |-> 0,
     resolving |-> PyNone, requesting |-> PyNone, last |-> NoOperation]

\* client = await factory(client_name, auth=...) up to its await: the registry
\* lookup has raised, or the call awaits sd.get_endpoint
FactoryCall ==
    /\ disc.factory_calls < MaxFactoryCalls
    /\ disc.resolving = PyNone
    /\ \E client_name \in FactoryClientNames, auth \in ClientAuths :
          LET out == factory_call(TheFactory, client_name)
          IN disc' = [disc EXCEPT
                         !.sd_calls = @ + out.sd_calls,
                         !.factory_calls = @ + 1,
                         !.resolving =
                             IF out.raised # "" THEN PyNone
                             ELSE [kind |-> "call", client_name |-> client_name,
                                   auth |-> auth, resources |-> out.resources],
                         !.last = Operation(IF out.raised # "" THEN "factory"
                                            ELSE "get_endpoint",
                                            client_name, out.raised, <<>>,
                                            NoAnswer, PyNone, NoSent)]

\* sd.get_endpoint answers the call of the factory that awaits it: the caller
\* keeps the client it had when the call raises, and goes on with the new one
\* otherwise
GetEndpointReturns ==
    /\ disc.resolving # PyNone
    /\ \E answer \in SDAnswers :
          LET call == disc.resolving
              out == factory_return(TheFactory, call.client_name, call.auth,
                                    call.resources, answer)
          IN disc' = [disc EXCEPT
                         !.client = IF out.raised = "" THEN out.client ELSE @,
                         !.resolving = PyNone,
                         !.last = Operation("factory", call.client_name,
                                            out.raised, <<>>, answer,
                                            out.client, NoSent)]

\* proxy = client.<name>, also while a call awaits service discovery or the
\* transport; of keeps the client the proxy was read on (history)
GetAttr ==
    /\ disc.client # PyNone
    /\ \E name \in ResourceNames :
          LET out == getattr(disc.client, name)
          IN disc' = [disc EXCEPT
                         !.held = IF out.raised = "" THEN out.proxy ELSE @,
                         !.of = IF out.raised = "" THEN disc.client ELSE @,
                         !.last = Operation("getattr", name, out.raised,
                                            out.exc_args, NoAnswer, out.proxy,
                                            NoSent)]

\* proxy.<verb>(params) on the proxy the caller holds, up to its await: the
\* preparation has raised, or the call awaits transport.request
RouteCall ==
    /\ disc.held # PyNone
    /\ disc.route_calls < MaxRouteCalls
    /\ disc.requesting = PyNone
    /\ \E verb \in Verbs, params \in ParamChoices :
          LET out == verb_method(disc.held, verb, params, PyNone, PyNone)
          IN disc' = [disc EXCEPT
                         !.transport_calls = @ + out.transport_calls,
                         !.route_calls = @ + 1,
                         !.requesting =
                             IF out.raised # "" THEN PyNone
                             ELSE [kind |-> "call", verb |-> verb,
                                   name |-> disc.held.name,
                                   return_schema |-> out.return_schema,
                                   sent |-> out.sent],
                         !.last = Operation(IF out.raised # "" THEN "verb"
                                            ELSE "request",
                                            disc.held.name, out.raised,
                                            <<>>, NoAnswer, PyNone, out.sent)]

\* transport.request answers the route call that awaits it
RouteReturns ==
    /\ disc.requesting # PyNone
    /\ \E transport \in TransportBehaviours :
          LET call == disc.requesting
              out == request_return(call.verb, call.return_schema, transport)
          IN disc' = [disc EXCEPT
                         !.requesting = PyNone,
                         !.last = Operation("verb", call.name, out.raised,
                                            <<>>, NoAnswer, out.result,
                                            call.sent)]

\* C25: reading on a client an attribute that is not a registered resource
\* raises UnregisteredResourceException with the name of the resource and
\* the name of the client, creates no route proxy and calls the transport
\* not at all; reading a registered resource gives a route proxy bound to
\* the name, endpoint, transport, auth and timeout of the client and to the
\* routes of the resource.
C25_GetAttr ==
    [][disc'.last.op = "getattr" =>
          LET client == disc.client
              name == disc'.last.arg
          IN /\ disc'.transport_calls = disc.transport_calls
             /\ IF name = "dummies"
                THEN /\ disc'.last.raised = ""
                     /\ disc'.held = disc'.last.returned
                     /\ disc'.held.client_name = client.name
                     /\ disc'.held.name = name
                     /\ disc'.held.endpoint = client.endpoint
                     /\ disc'.held.transport = client.transport
                     /\ disc'.held.auth = client.auth
                     /\ disc'.held.timeout = client.timeout
                     /\ disc'.held.routes = ApiResources[name]
                ELSE /\ disc'.last.raised = "UnregisteredResourceException"
                     /\ disc'.last.exc_args = <<name, client.name>>
                     /\ disc'.last.returned = PyNone
                     /\ disc'.held = disc.held]_vars

\* client.daemon raised for a client whose resource dummies had been read,
\* and client.dummies gave a proxy, while a call of the factory awaited
\* service discovery
C25_Witness ==
    /\ disc.last.op = "getattr"
    /\ disc.last.raised = "UnregisteredResourceException"
    /\ disc.last.exc_args = <<"daemon", "api">>
    /\ disc.held # PyNone
    /\ disc.held.name = "dummies"
    /\ disc.resolving # PyNone
    /\ disc.sd_calls = 2

\* the urls a request for a resource of the client can have
UrlsOf(client) ==
    {client.endpoint \o "/dummies/{name}", client.endpoint \o "/dummies"}

\* C30: the factory resolves the endpoint of a client through service
\* discovery exactly once, when the client is created: a route call of the
\* client sends its request to that endpoint, calls service discovery not at
\* all and leaves the client as it is; when the registry lookup raises,
\* service discovery is not called, and when it or get_endpoint raises, the
\* error reaches the caller, no client is returned and the transport is not
\* called.
C30_ResolvedOnce ==
    [][/\ disc'.route_calls # disc.route_calls =>
             /\ disc'.sd_calls = disc.sd_calls
             /\ disc'.client = disc.client
             /\ IF disc'.last.sent = NoSent
                THEN /\ disc'.transport_calls = disc.transport_calls
                     /\ disc'.requesting = PyNone
                ELSE /\ disc'.transport_calls = disc.transport_calls + 1
                     /\ disc'.last.sent.req.url \in UrlsOf(disc.of)
       /\ (disc.requesting # PyNone /\ disc'.requesting = PyNone) =>
             /\ disc'.sd_calls = disc.sd_calls
             /\ disc'.client = disc.client
             /\ disc'.transport_calls = disc.transport_calls
             /\ disc'.last.op = "verb"
             /\ disc'.last.sent = disc.requesting.sent
       /\ disc'.factory_calls # disc.factory_calls =>
             /\ disc'.transport_calls = disc.transport_calls
             /\ disc'.client = disc.client
             /\ IF disc'.last.arg # "api"
                THEN /\ disc'.last.op = "factory"
                     /\ disc'.last.raised = "UnregisteredClientException"
                     /\ disc'.last.returned = PyNone
                     /\ disc'.sd_calls = disc.sd_calls
                     /\ disc'.resolving = PyNone
                ELSE /\ disc'.sd_calls = disc.sd_calls + 1
                     /\ disc'.resolving # PyNone
       /\ (disc.resolving # PyNone /\ disc'.resolving = PyNone) =>
             LET answer == disc'.last.sd
             IN /\ disc'.last.op = "factory"
                /\ disc'.transport_calls = disc.transport_calls
                /\ disc'.sd_calls = disc.sd_calls
                /\ IF answer.raised # ""
                   THEN /\ disc'.last.raised = answer.raised
                        /\ disc'.last.returned = PyNone
                        /\ disc'.client = disc.client
                   ELSE /\ disc'.last.raised = ""
                        /\ disc'.client = disc'.last.returned
                        /\ disc'.client.endpoint = answer.endpoint]_vars

\* a route call returned whose request went to the endpoint of the client
\* its proxy was read on, the factory having made, while the call awaited
\* the transport, another client with another endpoint
C30_Witness ==
    /\ disc.last.op = "verb"
    /\ disc.last.raised = ""
    /\ disc.last.sent # NoSent
    /\ disc.last.sent.req.url \in UrlsOf(disc.of)
    /\ disc.client.endpoint # disc.of.endpoint
    /\ disc.sd_calls = 2
    /\ disc.route_calls = 1
    /\ disc.transport_calls = 1

(***************************************************************************)
(* The cache middleware on a route with path values and query strings      *)
(* (test_cache_middleware).                                                *)
(***************************************************************************)
\* at most MaxUrlCalls calls go through the cache middleware
MaxUrlCalls == 3

\* the client names of the calls
UrlClients == {"dummy", "dummies"}

\* requests on the route /dummies/{name}, with and without a query string
UrlRequests ==
    {HTTPRequest("GET", DummiesPath, [k \in {"name"} |-> n], qs, EmptyDict) :
        n \in {"42", "43"}, qs \in {<<>>, <<<<"foo", "bar">>>>}}

\* what next does: it raises, or returns a cacheable response
UrlNextBehaviours ==
    {Raises}
    \cup {Returns(HTTPResponse(200, [h \in {"cache-control"} |->
                                        <<MaxAgeDirective(2), Public>>], b)) :
             b \in Bodies}

\* the record of a step of a call through the middleware (history): op is
\* "handle" when the step ended the call, and the step otherwise
UrlCall(op, f) ==
    [op |-> op, client |-> f.client, req |-> f.req,
     nxt |-> f.nxt, next_calls |-> f.next_calls, raised |-> f.raised,
     resp |-> f.resp]

\* an empty store, no call made or in flight
NoUrlCache ==
    [store |-> <<>>, producers |-> {}, calls |-> 0,
     inflight |-> [t \in Callers |-> IdleFlight],
     last |-> UrlCall("none", [IdleFlight EXCEPT !.client = "dummy"])]

\* the record of a step that left the flight as f
UrlRecorded(step, f) == UrlCall(IF f.at = "return" THEN f.op ELSE step, f)

\* a caller calls through the middleware: next(req, client_name,
\* "/dummies/{name}", timeout)
UrlHandleCall ==
    /\ urlc.calls < MaxUrlCalls
    /\ \E t \in Callers, client \in UrlClients, q \in UrlRequests :
          LET f == start_handle(client, q)
          IN /\ urlc.inflight[t] = IdleFlight
             /\ urlc' = [urlc EXCEPT !.calls = @ + 1,
                                     !.inflight[t] = f,
                                     !.last = UrlRecorded("start", f)]

\* the store answers the get or the set a call in flight awaits; producers
\* keeps the calls that have set an entry
UrlStoreCall ==
    \E t \in Callers :
        LET f == urlc.inflight[t]
            s == store_step(urlc.store, f)
        IN /\ f.op # "idle"
           /\ f.at \in StoreOps
           /\ urlc' = [urlc EXCEPT
                          !.store = s.store,
                          !.producers =
                              IF s.keys = {} THEN @
                              ELSE @ \cup {[client |-> f.client,
                                            req |-> f.req, resp |-> f.resp]},
                          !.inflight[t] = Landed(s.f),
                          !.last = UrlRecorded(f.at, s.f)]

\* next answers a call that awaits it
UrlNextReturns ==
    \E t \in Callers, nxt \in UrlNextBehaviours :
        LET f == on_next(urlc.inflight[t], nxt)
        IN /\ urlc.inflight[t].op = "handle"
           /\ urlc.inflight[t].at = "next"
           /\ urlc' = [urlc EXCEPT !.inflight[t] = Landed(f),
                                   !.last = UrlRecorded("next", f)]

\* the resolved URL of a request on /dummies/{name}: the path value
\* substituted, then the query string
ResolvedUrl(req) ==
    "/dummies/" \o req.path["name"]
    \o (IF req.querystring = <<>> THEN ""
        ELSE "?" \o req.querystring[1][1] \o "=" \o req.querystring[1][2])

\* the two requests have the same resolved URL and query string
SameUrl(q1, q2) == q1.path = q2.path /\ q1.querystring = q2.querystring

\* the keys of the two entries that the call of a producer stores: the Vary
\* record and, the responses having no Vary header, the response
EntryKeys(p) ==
    {p.client \o "$" \o ResolvedUrl(p.req),
     p.client \o "$" \o ResolvedUrl(p.req) \o "$"}

\* the producer is still between its two sets
Storing(p) ==
    \E t \in Callers :
        /\ urlc.inflight[t].at = "set_response"
        /\ urlc.inflight[t].client = p.client
        /\ urlc.inflight[t].req = p.req
        /\ urlc.inflight[t].resp = p.resp

\* C27: the path component of the keys of the cache middleware is the
\* resolved URL of the request, path values substituted and query string
\* appended, not the route pattern; a response that comes from the cache was
\* produced by a request with the same client_name, resolved URL and query
\* string, and requests on one route pattern that differ in a path value or
\* in the query string share no entry of the store.
C27_KeyedByUrl ==
    /\ DOMAIN urlc.store \subseteq UNION {EntryKeys(p) : p \in urlc.producers}
    /\ \A p \in urlc.producers :
          \/ EntryKeys(p) \subseteq DOMAIN urlc.store
          \/ /\ Storing(p)
             /\ p.client \o "$" \o ResolvedUrl(p.req) \in DOMAIN urlc.store
    /\ (urlc.last.op = "handle" /\ urlc.last.next_calls = 0) =>
          \E p \in urlc.producers :
              /\ p.resp = urlc.last.resp
              /\ p.client = urlc.last.client
              /\ SameUrl(p.req, urlc.last.req)
    /\ \A p1, p2 \in urlc.producers :
          (p1.client # p2.client \/ ~SameUrl(p1.req, p2.req)) =>
              EntryKeys(p1) \cap EntryKeys(p2) = {}

\* the response of /dummies/42?foo=bar came from the cache while the other
\* caller's call, for another request on the route, had set its Vary record
\* and not yet its response
C27_Witness ==
    /\ urlc.last.op = "handle"
    /\ urlc.last.next_calls = 0
    /\ urlc.last.resp.json = "En Francais"
    /\ "dummy$/dummies/42?foo=bar$" \in DOMAIN urlc.store
    /\ urlc.store["dummy$/dummies/42?foo=bar"].val = "[]"
    /\ urlc.last.client = "dummy"
    /\ ResolvedUrl(urlc.last.req) = "/dummies/42?foo=bar"
    /\ Cardinality(DOMAIN urlc.store) = 3
    /\ \E u \in Callers :
          /\ urlc.inflight[u].at = "set_response"
          /\ urlc.inflight[u].client = "dummy"
          /\ ~SameUrl(urlc.inflight[u].req, urlc.last.req)

(***************************************************************************)
(* Two calls of cache_response that interleave at the store                *)
(* (test_http_cache_response, the fake store of conftest.py).              *)
(***************************************************************************)
\* the two writers
Writers == {1, 2}

\* the responses the writers store: without Vary, and with Vary for the two
\* bodies
RaceResponses == {r \in CResponses : get_max_age(r) > 0}

\* a writer: its arguments and the number of its set calls made so far
Writer(req, resp, done) == [req |-> req, resp |-> resp, done |-> done]

NoRead == [done |-> FALSE, req |-> NoCacheEvent.req, resp |-> None]

\* no writer started; sets is the order of the set calls made (history)
NoRace ==
    [store |-> <<>>, started |-> FALSE,
     w |-> [i \in Writers |-> Writer(NoCacheEvent.req, None, 0)],
     sets |-> <<>>, read |-> NoRead]

\* the set calls of writer i
StepsOf(i) ==
    cache_response_steps(CacheClient, race.w[i].req.url_pattern, race.w[i].req,
                         race.w[i].resp)

\* two callers enter cache_response for the same client and path
StartWriters ==
    /\ ~race.started
    /\ \E q1, q2 \in GetRequests, r1, r2 \in RaceResponses :
          race' = [race EXCEPT !.started = TRUE,
                               !.w = [i \in Writers |->
                                         IF i = 1 THEN Writer(q1, r1, 0)
                                         ELSE Writer(q2, r2, 0)]]

\* a writer makes its next call of set; the other may run before it goes on
WriterSet(i) ==
    /\ race.started
    /\ race.w[i].done < Len(StepsOf(i))
    /\ LET step == StepsOf(i)[race.w[i].done + 1]
       IN race' = [race EXCEPT
                      !.store = cache_set(race.store, step.key, step.val, step.ex),
                      !.w[i].done = @ + 1,
                      !.sets = Append(@, [writer |-> i, key |-> step.key])]

WriterStep == \E i \in Writers : WriterSet(i)

\* both writers have returned
WritersDone ==
    race.started /\ \A i \in Writers : race.w[i].done = Len(StepsOf(i))

\* get_from_cache for the same client and path, after the writers
ReadAfter ==
    /\ WritersDone
    /\ \E q \in GetRequests :
          race' = [race EXCEPT !.read =
                      [done |-> TRUE, req |-> q,
                       resp |-> get_from_cache(race.store, CacheClient,
                                               q.url_pattern, q)]]

\* the key under which a request's variant is stored for Vary names
VariantKey(req, names) == "dummies$/$" \o ExpectedSuffix(req, names)

\* the writer whose set of key came last, 0 when none set it
LastSetter(key) ==
    LET is == {i \in DOMAIN race.sets : race.sets[i].key = key}
    IN IF is = {} THEN 0
       ELSE race.sets[CHOOSE i \in is : \A j \in is : j <= i].writer

\* C26: whatever the interleaving of the set calls of two cache_response
\* calls for the same client and path, a read made once both have returned
\* gives a miss or the complete response that one of the writers stored
\* under the variant key of the reading request, the variant being that of
\* the Vary record whose set came last; when both writers stored under that
\* key, it gives the response of the one whose set came last.
C26_InterleavedWriters ==
    (WritersDone /\ race.read.done) =>
        LET names == ExpectedNames(race.w[LastSetter("dummies$/")].resp)
            key == VariantKey(race.read.req, names)
            setters == {i \in Writers :
                           VariantKey(race.w[i].req,
                                      ExpectedNames(race.w[i].resp)) = key}
        IN /\ Len(race.sets) = 4
           /\ IF setters = {} THEN race.read.resp = None
              ELSE /\ LastSetter(key) \in setters
                   /\ race.read.resp = race.w[LastSetter(key)].resp

\* writer 1 set its Vary record after writer 2 and the key of the variant
\* before it, and the read gives the response of writer 2
C26_Witness ==
    /\ WritersDone
    /\ race.read.done
    /\ race.w[1].resp # race.w[2].resp
    /\ [i \in 1..4 |-> race.sets[i].writer] = <<2, 1, 1, 2>>
    /\ race.sets[3].key = race.sets[4].key
    /\ race.read.resp = race.w[2].resp
    /\ race.read.resp.json = "In English"

(***************************************************************************)
(* Initial states and specifications.                                      *)
(***************************************************************************)
InitBreaker ==
    /\ now = 0
    /\ threshold \in 1..MaxThreshold
    /\ ttl \in 1..MaxTTL
    /\ breakers = [c \in ClientNames |-> NoContext]
    /\ pc = [t \in Callers |-> "idle"]
    /\ arg = [t \in Callers |-> "dummy"]
    /\ event = NoEvent
    /\ streak = [c \in ClientNames |-> 0]

\* the breaker middleware as constructed with threshold 1 and ttl 1
InitBreakerIdle ==
    /\ InitBreaker
    /\ threshold = 1
    /\ ttl = 1

InitCache ==
    /\ cache = EmptyDict
    /\ expiry = EmptyDict
    /\ writes = 0
    /\ writer = EmptyDict
    /\ cevent = NoCacheEvent
    /\ inflight = [t \in Callers |-> IdleFlight]

InitKeysIdle ==
    /\ kin = [client |-> CacheClient, req |-> NoCacheEvent.req, resp |-> None]
    /\ kdone = FALSE

InitKeys ==
    /\ kin \in KeyInputs
    /\ kdone = FALSE

\* a factory with no middleware and no client
InitLists ==
    /\ heap = <<<<>>>>
    /\ clients = <<>>
    /\ adds = 0
    /\ levent = NoListEvent

InitChain == chain = NoCall

InitProxy == proxy = NoProxy

InitBox == box = NoBox

InitIterator == iter = NoIterator

InitSerializers == ser = NoSerializers

InitRequestModel == sreq = NoRequestModel

InitPrometheus == prom = NoEvents

InitDiscovery == disc = NoDiscovery

InitUrlCache == urlc = NoUrlCache

InitRace == race = NoRace

InitLater ==
    /\ InitLists /\ InitChain /\ InitProxy /\ InitBox /\ InitIterator
    /\ InitSerializers
    /\ InitRequestModel
    /\ InitPrometheus
    /\ InitDiscovery
    /\ InitUrlCache
    /\ InitRace

Init == InitBreaker /\ InitCache /\ InitKeysIdle /\ InitLater

InitCacheSpec == InitBreakerIdle /\ InitCache /\ InitKeysIdle /\ InitLater

InitKeysSpec == InitBreakerIdle /\ InitCache /\ InitKeys /\ InitLater

NextBreaker == GetBreaker \/ Enter \/ Exit \/ Tick

NextCancel == GetBreaker \/ Enter \/ Exit \/ Tick \/ Cancel \/ CancelAcquired

NextCache ==
    CacheResponseCall \/ GetFromCacheCall \/ CacheStoreCall \/ CacheTick
        \/ Expire

NextHandle ==
    CacheHandleCall \/ CacheStoreCall \/ CacheNextReturns \/ CacheTick
        \/ Expire

NextKeys == KeysCacheResponse

NextLists ==
    \/ FactoryAddMiddleware /\ UNCHANGED <<earlyVars, extVars, chain, resultVars>>
    \/ CreateClient /\ UNCHANGED <<earlyVars, extVars, chain, resultVars>>
    \/ ClientAddMiddleware /\ UNCHANGED <<earlyVars, extVars, chain, resultVars>>

NextChain ==
    \/ ChainStart /\ UNCHANGED <<earlyVars, extVars, listVars, resultVars>>
    \/ ChainGetBreakerReturns
          /\ UNCHANGED <<earlyVars, extVars, listVars, resultVars>>
    \/ ChainContextEnters
          /\ UNCHANGED <<earlyVars, extVars, listVars, resultVars>>
    \/ ChainTransportReturns
          /\ UNCHANGED <<earlyVars, extVars, listVars, resultVars>>
    \/ ChainContextExits
          /\ UNCHANGED <<earlyVars, extVars, listVars, resultVars>>

NextProxy ==
    \/ ClientFactoryInit /\ UNCHANGED <<earlyVars, extVars, listVars, chain, box, iter>>
    \/ ClientFactoryCall /\ UNCHANGED <<earlyVars, extVars, listVars, chain, box, iter>>
    \/ ClientFactoryReturns /\ UNCHANGED <<earlyVars, extVars, listVars, chain, box, iter>>
    \/ VerbCall /\ UNCHANGED <<earlyVars, extVars, listVars, chain, box, iter>>
    \/ TransportReturns /\ UNCHANGED <<earlyVars, extVars, listVars, chain, box, iter>>
    \/ VerbDone /\ UNCHANGED <<earlyVars, extVars, listVars, chain, box, iter>>

NextBox ==
    \/ BoxInit /\ UNCHANGED <<earlyVars, extVars, listVars, chain, proxy, iter>>
    \/ AccessorCall /\ UNCHANGED <<earlyVars, extVars, listVars, chain, proxy, iter>>

NextIterator ==
    \/ IteratorInit /\ UNCHANGED <<earlyVars, extVars, listVars, chain, proxy, box>>
    \/ IteratorNext /\ UNCHANGED <<earlyVars, extVars, listVars, chain, proxy, box>>

NextSerializers ==
    \/ RegisterSerializer /\ UNCHANGED except_ser
    \/ UnregisterSerializer /\ UNCHANGED except_ser
    \/ SerializeBody /\ UNCHANGED except_ser

NextRequestModel ==
    \/ BuildRequestModel /\ UNCHANGED except_sreq
    \/ SerializeRequest /\ UNCHANGED except_sreq

NextPrometheus ==
    \/ DeliverEvent /\ UNCHANGED except_prom

NextDiscovery ==
    \/ FactoryCall /\ UNCHANGED except_disc
    \/ GetAttr /\ UNCHANGED except_disc
    \/ RouteCall /\ UNCHANGED except_disc
    \/ GetEndpointReturns /\ UNCHANGED except_disc
    \/ RouteReturns /\ UNCHANGED except_disc

NextUrlCache ==
    \/ UrlHandleCall /\ UNCHANGED except_urlc
    \/ UrlStoreCall /\ UNCHANGED except_urlc
    \/ UrlNextReturns /\ UNCHANGED except_urlc

NextRace ==
    \/ StartWriters /\ UNCHANGED except_race
    \/ WriterStep /\ UNCHANGED except_race
    \/ ReadAfter /\ UNCHANGED except_race

NextIteratorMixed ==
    \/ IteratorInitMixed /\ UNCHANGED <<earlyVars, extVars, listVars, chain, proxy, box>>
    \/ IteratorNext /\ UNCHANGED <<earlyVars, extVars, listVars, chain, proxy, box>>

\* the circuit breaker middleware under concurrent callers
SpecBreaker == Init /\ [][NextBreaker]_vars

\* cache_response and get_from_cache called directly by concurrent callers
SpecCache == InitCacheSpec /\ [][NextCache]_vars

\* calls through the cache middleware by concurrent callers
SpecHandle == InitCacheSpec /\ [][NextHandle]_vars

\* one call of cache_response on an empty store, for every input
SpecKeys == InitKeysSpec /\ [][NextKeys]_vars

\* a factory, its clients and the add_middleware calls on them
SpecLists == InitCacheSpec /\ [][NextLists]_vars

\* one call at a time through a middleware list
SpecChain == InitCacheSpec /\ [][NextChain]_vars

\* a factory, a client made from it and calls of its verb methods
SpecProxy == InitCacheSpec /\ [][NextProxy]_vars

\* a ResponseBox and accessor calls on it
SpecBox == InitCacheSpec /\ [][NextBox]_vars

\* a CollectionIterator iterated by a loop: the loop calls next until
\* next raises StopIteration, and may call it again afterwards
SpecIterator ==
    InitCacheSpec /\ [][NextIterator]_vars /\ WF_iter(IteratorNext)

\* the list of body serializers under register, unregister and
\* serialize_body calls
SpecSerializers == InitCacheSpec /\ [][NextSerializers]_vars

\* an instance of a request model, then its serialization
SpecRequestModel == InitCacheSpec /\ [][NextRequestModel]_vars

\* events delivered to the Prometheus hook
SpecPrometheus == InitCacheSpec /\ [][NextPrometheus]_vars

\* the circuit breaker middleware with callers whose tasks may be cancelled
SpecCancel == Init /\ [][NextCancel]_vars

\* a factory with service discovery, its clients and their route calls
SpecDiscovery == InitCacheSpec /\ [][NextDiscovery]_vars

\* calls through the cache middleware on a route with path values
SpecUrlCache == InitCacheSpec /\ [][NextUrlCache]_vars

\* two interleaved calls of cache_response, then reads
SpecRace == InitCacheSpec /\ [][NextRace]_vars

\* iterators over responses some of whose items the schema rejects
SpecIteratorMixed == InitCacheSpec /\ [][NextIteratorMixed]_vars

Spec == SpecBreaker

====
